---- MODULE Spec2Model ----
(***************************************************************************)
(* Pylitaire: the card-stack data model (cards.py: Card, Slot, Deck) and   *)
(* the rule engine built on it (gamerules.py: Game, Klondike, Win, Yukon,  *)
(* Pylitaire, Backbone, Test).                                             *)
(*                                                                         *)
(* Cards and slots are numbered from 1; None is 0.  A card's number is its *)
(* position in Deck.create_cards' creation order, a slot's number is its   *)
(* position in the order of the Slot() constructions of the game.          *)
(***************************************************************************)
EXTENDS Integers, Sequences, FiniteSets, TLC

VARIABLES
    game,        \* class of the Game instance ("none": cards and slots only)
    cards,       \* Deck.cards: the deck's list of cards, in dealing order
    parent,      \* Card.parent of every card
    child,       \* Card.child of every card
    slot,        \* Card.slot of every card
    slot_child,  \* Slot.child of every slot
    faceup,      \* Card._faceup of every card
    rect,        \* Card.rect.topleft of every card, as the drag calls move it
    drag_start_pos,  \* Card._drag_start_pos of every card, <<>> for ()
    drag_offset,     \* Card._drag_offset of every card, <<>> for ()
    undocmds,    \* Game.undocmds
    seed,        \* Game.seed
    redeals,     \* Backbone.redeals
    dealt,       \* history: restart() has run on this instance
    moves,       \* history: number of gestures since the deal
    hist,        \* history of the deal: stray drops, the waste at each redeal
    last,        \* history: the last operation and what it returned
    before,      \* history: the state the last gesture started from
    gui          \* Gui: dragcard, clickcard, doubleclickcard, win, and whether
                 \* the event loop is still running

vars == <<game, cards, parent, child, slot, slot_child, faceup, undocmds,
          seed, redeals, dealt, moves, hist, last, before,
          rect, drag_start_pos, drag_offset, gui>>

None == 0

\* ------------------------------------------------------------------ bounds
MaxCards == 3      \* cards of the deck in the cards-only specification
MaxSlots == 2      \* slots in the cards-only specification
MaxTargets == 2    \* length of the target list handed to Slot.deal
MaxPos == 1        \* largest coordinate of a mouse position
MaxDrags == 4      \* calls in a session of drags
MaxChain == 4      \* cards of the deck in the specification of the chains
MaxDealSlots == 3  \* slots in the specification of the deals between slots
MaxDeals == 1      \* calls of Slot.deal in the specification of the deals

\* ------------------------------------------------------- program constants
NumRanks == 13
NumSuits == 4
ACE == 1
KING == 13
BLACK == 1
RED == 2
CLUBS == 1
SPADES == 4

\* TURN: the argument of Card.flip
TURN == {"SAME", "TOGGLE", "FACEUP", "FACEDOWN"}

\* ------------------------------------------------------------ the topology
\* The fields of all cards and slots and of the game, as one value the
\* operations transform.
Cur ==
    [parent |-> parent, child |-> child, slot |-> slot,
     slot_child |-> slot_child, faceup |-> faceup,
     undocmds |-> undocmds, redeals |-> redeals]

CardsOf(st) == DOMAIN st.parent
SlotsOf(st) == DOMAIN st.slot_child

RECURSIVE ChainFrom(_, _, _)
\* The cards met by following child links from c, c first.  The walk gives up
\* after fuel cards, where the recursion of the code would not return.  It is
\* made by halves: the first half of the fuel, then the rest from the child
\* of the last card reached.
ChainFrom(ch, c, fuel) ==
    IF c = None \/ fuel = 0 THEN <<>>
    ELSE IF fuel = 1 THEN <<c>>
    ELSE LET h == fuel \div 2
             a == ChainFrom(ch, c, h)
         IN  IF Len(a) < h THEN a
             ELSE a \o ChainFrom(ch, ch[a[h]], fuel - h)

Range(q) == {q[i] : i \in 1..Len(q)}

Reverse(q) == [i \in 1..Len(q) |-> q[Len(q) + 1 - i]]

RECURSIVE ForEach(_, _, _)
\* for x in q: st = Body(st, x).  The list is run by halves, in order.
ForEach(Body(_, _), st, q) ==
    IF st = st /\ q = <<>> THEN st
    ELSE IF Len(q) = 1 THEN Body(st, q[1])
    ELSE LET h == Len(q) \div 2
         IN  ForEach(Body, ForEach(Body, st, SubSeq(q, 1, h)),
                     SubSeq(q, h + 1, Len(q)))

RECURSIVE WhileDo(_, _, _, _)
\* while Cond(st): st = Body(st), for at most fuel rounds, run by halves
WhileDo(Cond(_), Body(_), st, fuel) ==
    IF fuel = 0 \/ ~Cond(st) THEN st
    ELSE IF fuel = 1 THEN Body(st)
    ELSE LET h == fuel \div 2
         IN  WhileDo(Cond, Body, WhileDo(Cond, Body, st, h), fuel - h)

\* Card.children
children(st, c) == ChainFrom(st.child, st.child[c], Cardinality(CardsOf(st)))

\* Card.is_tail, Card.is_head
is_tail(st, c) == st.child[c] = None
is_head(st, c) == st.parent[c] = None

\* Slot.cards, Slot.is_empty, Slot.head, Slot.tail
Slot_cards(st, s) == ChainFrom(st.child, st.slot_child[s], Cardinality(CardsOf(st)))
is_empty(st, s) == st.slot_child[s] = None
head(st, s) == st.slot_child[s]
Last(q) == q[Len(q)]
tail(st, s) ==
    IF st.slot_child[s] = None THEN None
    ELSE Last(Slot_cards(st, s))

\* Card._set_slot that stops at the card itself
set_slot_of_card_only(st, c, s) == [st EXCEPT !.slot[c] = s]

\* Card._set_slot: set the slot of c, then of its child, and so on.  On a
\* cycle the recursion of the code does not return, and every card of the
\* cycle has the slot by then.
set_slot(st, c, s) ==
    ForEach(LAMBDA x, d : [x EXCEPT !.slot[d] = s], st, <<c>> \o children(st, c))

\* Card.pop, first step: a head leaves its slot
pop_from_slot(st, c) ==
    IF st.slot[c] # None /\ st.slot_child[st.slot[c]] = c
    THEN [st EXCEPT !.slot_child[st.slot[c]] = None]
    ELSE st

\* Card.pop, last step: the parent lets go of the card, the card of its parent
pop_from_parent(st, c) ==
    IF st.parent[c] # None
    THEN [st EXCEPT !.child[st.parent[c]] = None, !.parent[c] = None]
    ELSE [st EXCEPT !.parent[c] = None]

\* Card.pop that leaves the parent's child link in place
pop_keeping_parent_link(st, c) ==
    [set_slot(pop_from_slot(st, c), c, None) EXCEPT !.parent[c] = None]

\* Card.pop that lets go of the child of the card too
pop_dropping_child(st, c) ==
    [pop_from_parent(set_slot(pop_from_slot(st, c), c, None), c) EXCEPT !.child[c] = None]

\* Card.pop that leaves the card and its children in their slot
pop_keeping_slot(st, c) == pop_from_parent(pop_from_slot(st, c), c)

\* Card.pop
pop(st, c) == pop_from_parent(set_slot(pop_from_slot(st, c), c, None), c)

\* Card.stack, first step: a target found among the card's children is popped
pop_target_below(st, c, t) ==
    IF t \in Range(children(st, c)) THEN pop(st, t) ELSE st

\* Card.stack, second step: the child of the target is popped
pop_child_of(st, t) ==
    IF st.child[t] # None THEN pop(st, st.child[t]) ELSE st

\* Card.stack, last step, that leaves the card and its children slotless
stack_link_without_slot(st, c, t) == [st EXCEPT !.parent[c] = t, !.child[t] = c]

\* Card.stack, last step: the links, then the slot of the target for the
\* card and its children
stack_link(st, c, t) ==
    set_slot([st EXCEPT !.parent[c] = t, !.child[t] = c], c, st.slot[t])

\* Card.stack that does not pop a target found among the card's children
Card_stack_on_descendant(st, c, t) ==
    IF t = c THEN st
    ELSE stack_link(pop(pop_child_of(st, t), c), c, t)

\* Card.stack that leaves the child of the target where it is
Card_stack_keeping_child(st, c, t) ==
    IF t = c THEN st
    ELSE stack_link(pop(pop_target_below(st, c, t), c), c, t)

\* Card.stack: c.stack(t)
Card_stack(st, c, t) ==
    IF t = c THEN st
    ELSE stack_link(pop(pop_child_of(pop_target_below(st, c, t), t), c), c, t)

\* Card.place, first step, that leaves another head of the slot alone
pop_head_of_none(st, c, s) == st

\* Card.place, first step: another head of the slot is popped
pop_head_of(st, c, s) ==
    IF st.slot_child[s] # None /\ st.slot_child[s] # c
    THEN pop(st, st.slot_child[s])
    ELSE st

\* Card.place, last step: the card becomes the head of the slot
place_link(st, c, s) == set_slot([st EXCEPT !.slot_child[s] = c], c, s)

\* Card.place that does not pop the card from where it is
place_without_pop(st, c, s) == place_link(pop_head_of(st, c, s), c, s)

\* Card.place that keeps the cards of the slot and stacks on its tail
place_on_tail(st, c, s) ==
    IF st.slot_child[s] = None THEN place_link(pop(st, c), c, s)
    ELSE Card_stack(st, c, tail(st, s))

\* Card.place: c.place(s)
place(st, c, s) == place_link(pop(pop_head_of(st, c, s), c), c, s)

\* ------------------------------------------------------------ the dragging
\* The position and the drag state of all cards, as one value the drag
\* calls transform; raised tells that the call ended in an exception.
Geo ==
    [rect |-> rect, drag_start_pos |-> drag_start_pos,
     drag_offset |-> drag_offset, raised |-> FALSE]

\* Card.start_drag: the card, then its child, and so on
start_drag(st, geo, c, mouse_pos) ==
    ForEach(LAMBDA x, d :
                [x EXCEPT !.drag_start_pos[d] = x.rect[d],
                          !.drag_offset[d] = <<mouse_pos[1] - x.rect[d][1],
                                               mouse_pos[2] - x.rect[d][2]>>],
            geo, <<c>> \o children(st, c))

\* Card.drag: the card, then its child, and so on.  _drag_offset[0] of the
\* empty tuple raises IndexError, and the cards from there on stay.
drag(st, geo, c, mouse_pos) ==
    ForEach(LAMBDA x, d :
                IF x.raised THEN x
                ELSE IF x.drag_offset[d] = <<>> THEN [x EXCEPT !.raised = TRUE]
                ELSE [x EXCEPT !.rect[d] = <<mouse_pos[1] - x.drag_offset[d][1],
                                             mouse_pos[2] - x.drag_offset[d][2]>>],
            geo, <<c>> \o children(st, c))

\* Card.drop: the card, then its child, and so on
Card_drop(st, geo, c) ==
    ForEach(LAMBDA x, d : [x EXCEPT !.drag_start_pos[d] = <<>>,
                                    !.drag_offset[d] = <<>>],
            geo, <<c>> \o children(st, c))

\* Card.abort_drag, the moves: the card, then its child, and so on.  The
\* empty tuple is no position: rect.topleft = () raises TypeError, and the
\* cards from there on stay.
abort_drag_moves(st, geo, c) ==
    ForEach(LAMBDA x, d :
                IF x.raised THEN x
                ELSE IF x.drag_start_pos[d] = <<>> THEN [x EXCEPT !.raised = TRUE]
                ELSE [x EXCEPT !.rect[d] = x.drag_start_pos[d]],
            geo, <<c>> \o children(st, c))

\* Card.abort_drag, last step: the drop of every card, which an exception
\* in the moves leaves out
drop_unless_raised(st, geo, c) == IF geo.raised THEN geo ELSE Card_drop(st, geo, c)

\* Card.abort_drag that moves back the card alone
abort_drag_of_card_only(st, geo, c) ==
    IF geo.drag_start_pos[c] = <<>> THEN [geo EXCEPT !.raised = TRUE]
    ELSE Card_drop(st, [geo EXCEPT !.rect[c] = geo.drag_start_pos[c]], c)

\* Card.abort_drag
abort_drag(st, geo, c) == drop_unless_raised(st, abort_drag_moves(st, geo, c), c)

\* Card.flip
flip(st, c, mode) ==
    IF mode = "SAME" THEN st
    ELSE [st EXCEPT !.faceup[c] =
            CASE mode = "TOGGLE"   -> ~st.faceup[c]
              [] mode = "FACEUP"   -> TRUE
              [] mode = "FACEDOWN" -> FALSE]

\* Slot.stack: s.stack(c)
Slot_stack(st, s, c) ==
    IF is_empty(st, s) THEN place(st, c, s)
    ELSE Card_stack(st, c, tail(st, s))

\* Slot.deal that deals the head of s and the cards below it
deal_from_head(st, s, slots, mode) ==
    ForEach(LAMBDA x, t :
                IF is_empty(x, s) THEN x
                ELSE Slot_stack(flip(x, head(x, s), mode), t, head(x, s)),
            st, slots)

\* Slot.deal: s.deal(slots, mode), slots a list of slots.  Once s is empty
\* the call returns: no later target gets a card.
deal(st, s, slots, mode) ==
    ForEach(LAMBDA x, t :
                IF is_empty(x, s) THEN x
                ELSE Slot_stack(flip(x, tail(x, s), mode), t, tail(x, s)),
            st, slots)

\* Deck.pop_cards that pops the cards of the slots only
pop_cards_of_slots(st, deckcards) ==
    ForEach(LAMBDA x, c : IF x.slot[c] # None THEN pop(x, c) ELSE x, st, deckcards)

\* Deck.pop_cards
pop_cards(st, deckcards) == ForEach(LAMBDA x, c : pop(x, c), st, deckcards)

\* ------------------------------------------------------------------- cards
\* Deck.create_cards: for each deck, for suit in SUIT, for rank in RANK
rank(c) == ((c - 1) % NumRanks) + 1
suit(c) == (((c - 1) \div NumRanks) % NumSuits) + 1
\* Card.__init__: black for clubs and spades, red otherwise
color(c) == IF suit(c) \in {CLUBS, SPADES} THEN BLACK ELSE RED

\* ------------------------------------------------------------------- games
KlondikeFamily == {"Klondike", "Win", "Yukon", "Pylitaire"}
Games == KlondikeFamily \cup {"Backbone", "Test"}

\* The slots in the order of their construction.  Stock and waste are the
\* first two slots of Klondike and of Backbone.
Stock == 1
Waste == 2

\* Number of Slot objects the constructor creates
NumSlotObjects(g) ==
    CASE g \in KlondikeFamily -> 13
      [] g = "Backbone" -> 37
      [] g = "Test" -> 6

\* Game.slots: Win and Yukon remove stock and waste from the list
slots(g) ==
    CASE g = "Klondike" -> [i \in 1..13 |-> i]
      [] g \in {"Win", "Yukon", "Pylitaire"} -> [i \in 1..11 |-> i + 2]
      [] g = "Backbone" -> [i \in 1..37 |-> i]
      [] g = "Test" -> [i \in 1..6 |-> i]

\* Game.foundations (absent in Test: score() reads it with a default of [])
foundations(g) ==
    CASE g \in KlondikeFamily -> [i \in 1..4 |-> i + 2]
      [] g = "Backbone" -> [i \in 1..8 |-> i + 2]
      [] g = "Test" -> <<>>

\* Game.tableau
tableau(g) ==
    CASE g \in KlondikeFamily -> [i \in 1..7 |-> i + 6]
      [] g = "Backbone" -> [i \in 1..8 |-> i + 10]
      [] g = "Test" -> <<>>

\* Backbone.backbone, Backbone.block
backbone(g) == IF g = "Backbone" THEN [i \in 1..18 |-> i + 18] ELSE <<>>
block == 37

\* Slot.blockedby that makes the block slot block every backbone slot
blockedby_block_only(s) == block

\* Slot.blockedby of the backbone slots: the next backbone slot, but the
\* block slot for the slots of index 8 and 17 (the last of each column)
blockedby(s) ==
    IF s - 18 \in {9, 18} THEN block ELSE s + 1

\* Number of cards create_cards makes, and the facing it gives them
NumCardsOf(g) == IF g = "Backbone" THEN 2 * NumRanks * NumSuits ELSE NumRanks * NumSuits
InitFaceup(g) == g \notin KlondikeFamily

\* Command: a bound operation and its arguments
Command(op, a, b, mode) == [op |-> op, a |-> a, b |-> b, mode |-> mode]

\* Command.execute
execute(st, cmd) ==
    CASE cmd.op = "deal"  -> deal(st, cmd.a, <<cmd.b>>, cmd.mode)
      [] cmd.op = "flip"  -> flip(st, cmd.a, cmd.mode)
      [] cmd.op = "stack" -> Slot_stack(st, cmd.a, cmd.b)
      [] cmd.op = "undo_redeals" -> [st EXCEPT !.redeals = @ + 1]

\* Game.undoable
undoable(st) == st.undocmds # <<>>

\* Game.undo.  An entry of undocmds is a list of commands; a single Command
\* is the list of that command.
undo(st) ==
    LET command == st.undocmds[Len(st.undocmds)]
        s1 == [st EXCEPT !.undocmds = SubSeq(@, 1, Len(@) - 1)]
    IN  ForEach(LAMBDA x, cmd : execute(x, cmd), s1, Reverse(command))

\* Game.add_undo
add_undo(st, cmd) == [st EXCEPT !.undocmds = Append(@, <<cmd>>)]

\* An item is a card or a slot of Game.slots
CardItem(c) == <<"card", c>>
SlotItem(s) == <<"slot", s>>
IsSlot(item) == item[1] = "slot"

\* Backbone.draggable that does not look at the blocking slot
draggable_when_blocked(g, st, c) ==
    IF g = "Backbone"
    THEN ~ \/ st.slot[c] = Stock
           \/ st.slot[c] \in Range(foundations(g))
    ELSE st.faceup[c]

\* Game.draggable, Backbone.draggable
draggable(g, st, c) ==
    IF g = "Backbone"
    THEN ~ \/ st.slot[c] = Stock
           \/ st.slot[c] \in Range(foundations(g))
           \/ /\ st.slot[c] \in Range(backbone(g))
              /\ ~is_empty(st, blockedby(st.slot[c]))
    ELSE st.faceup[c]

\* Game.droppable that takes every item
Game_droppable_any_item(st, c, targets) == targets

\* Game.droppable: empty slots and tail cards
Game_droppable(st, c, targets) ==
    SelectSeq(targets, LAMBDA t :
        IF IsSlot(t) THEN is_empty(st, t[2]) ELSE is_tail(st, t[2]))

\* Klondike.droppable that takes a tableau card of either colour
Klondike_droppable_any_color(g, st, c, targets) ==
    SelectSeq(Game_droppable(st, c, targets), LAMBDA t :
        IF IsSlot(t)
        THEN IF t[2] \in Range(foundations(g))
             THEN is_tail(st, c) /\ rank(c) = ACE
             ELSE IF t[2] \in Range(tableau(g))
             THEN rank(c) = KING
             ELSE FALSE
        ELSE IF st.slot[t[2]] \in Range(foundations(g))
             THEN /\ is_tail(st, c)
                  /\ suit(t[2]) = suit(c)
                  /\ rank(t[2]) = rank(c) - 1
             ELSE IF st.slot[t[2]] \in Range(tableau(g))
             THEN /\ st.faceup[t[2]]
                  /\ rank(t[2]) = rank(c) + 1
             ELSE FALSE)

\* Klondike.droppable that takes a foundation card of any suit
Klondike_droppable_any_suit(g, st, c, targets) ==
    SelectSeq(Game_droppable(st, c, targets), LAMBDA t :
        IF IsSlot(t)
        THEN IF t[2] \in Range(foundations(g))
             THEN is_tail(st, c) /\ rank(c) = ACE
             ELSE IF t[2] \in Range(tableau(g))
             THEN rank(c) = KING
             ELSE FALSE
        ELSE IF st.slot[t[2]] \in Range(foundations(g))
             THEN /\ is_tail(st, c)
                  /\ rank(t[2]) = rank(c) - 1
             ELSE IF st.slot[t[2]] \in Range(tableau(g))
             THEN /\ st.faceup[t[2]]
                  /\ color(t[2]) # color(c)
                  /\ rank(t[2]) = rank(c) + 1
             ELSE FALSE)

\* Klondike.droppable
Klondike_droppable(g, st, c, targets) ==
    SelectSeq(Game_droppable(st, c, targets), LAMBDA t :
        IF IsSlot(t)
        THEN IF t[2] \in Range(foundations(g))
             THEN is_tail(st, c) /\ rank(c) = ACE
             ELSE IF t[2] \in Range(tableau(g))
             THEN rank(c) = KING
             ELSE FALSE
        ELSE IF st.slot[t[2]] \in Range(foundations(g))
             THEN /\ is_tail(st, c)
                  /\ suit(t[2]) = suit(c)
                  /\ rank(t[2]) = rank(c) - 1
             ELSE IF st.slot[t[2]] \in Range(tableau(g))
             THEN /\ st.faceup[t[2]]
                  /\ color(t[2]) # color(c)
                  /\ rank(t[2]) = rank(c) + 1
             ELSE FALSE)

\* Pylitaire.droppable that takes no more than Yukon does
Pylitaire_droppable_as_Yukon(g, st, c, targets) ==
    Klondike_droppable(g, st, c, targets)

\* The targets that Pylitaire.droppable adds to droplist: droplist.extend
\* draws them one at a time from a generator that looks at the growing
\* droplist, so a target comes once
extend(g, st, droplist, targets) ==
    SelectSeq([i \in 1..Len(targets) |-> i], LAMBDA i :
        /\ targets[i] \notin Range(droplist)
        /\ \A j \in 1..(i - 1) : targets[j] # targets[i]
        /\ IsSlot(targets[i])
        /\ targets[i][2] \in Range(tableau(g))
        /\ is_empty(st, targets[i][2]))

Pick(q, idx) == [k \in 1..Len(idx) |-> q[idx[k]]]

\* Pylitaire.droppable
Pylitaire_droppable(g, st, c, targets) ==
    Klondike_droppable(g, st, c, targets)
        \o Pick(targets, extend(g, st, Klondike_droppable(g, st, c, targets), targets))

\* Backbone.droppable
Backbone_droppable(g, st, c, targets) ==
    SelectSeq(Game_droppable(st, c, targets), LAMBDA t :
        IF IsSlot(t)
        THEN IF t[2] \in Range(foundations(g))
             THEN is_tail(st, c) /\ rank(c) = ACE
             ELSE IF t[2] \in Range(tableau(g))
             THEN \/ st.slot[c] \notin Range(backbone(g)) \cup {block}
                  \/ rank(c) = KING
             ELSE FALSE
        ELSE IF st.slot[t[2]] \in Range(foundations(g))
             THEN /\ is_tail(st, c)
                  /\ is_tail(st, t[2])
                  /\ suit(t[2]) = suit(c)
                  /\ rank(t[2]) = rank(c) - 1
             ELSE IF st.slot[t[2]] \in Range(tableau(g))
             THEN /\ is_tail(st, t[2])
                  /\ suit(t[2]) = suit(c)
                  /\ rank(t[2]) = rank(c) + 1
             ELSE FALSE)

\* droppable of the game's class
droppable(g, st, c, targets) ==
    CASE g \in {"Klondike", "Win", "Yukon"} -> Klondike_droppable(g, st, c, targets)
      [] g = "Pylitaire" -> Pylitaire_droppable(g, st, c, targets)
      [] g = "Backbone" -> Backbone_droppable(g, st, c, targets)
      [] g = "Test" -> Game_droppable(st, c, targets)

\* Game.drop that reads the card's slot after the move
drop_logging_new_slot(g, st, c, target) ==
    LET s1 == IF IsSlot(target) THEN place(st, c, target[2])
              ELSE Card_stack(st, c, target[2])
        s == s1.slot[c]
    IN  IF s = None THEN s1
        ELSE add_undo(s1, Command("stack", s, c, "SAME"))

\* Game.drop that moves the card without the cards below it
drop_single_card(g, st, c, target) ==
    LET s == st.slot[c]
        s1 == IF IsSlot(target) THEN place(pop_child_of(st, c), c, target[2])
              ELSE Card_stack(pop_child_of(st, c), c, target[2])
    IN  IF s = None THEN s1
        ELSE add_undo(s1, Command("stack", s, c, "SAME"))

\* Game.drop.  A card that is in no slot makes add_undo raise AttributeError
\* after the card has moved.
drop(g, st, c, target) ==
    LET s == st.slot[c]
        s1 == IF IsSlot(target) THEN place(st, c, target[2])
              ELSE Card_stack(st, c, target[2])
    IN  IF s = None THEN s1
        ELSE add_undo(s1, Command("stack", s, c, "SAME"))

\* A stock-slot click that moves the waste to the stock as one block
recycle_as_block(st, cmds, from, to) ==
    IF is_empty(st, from) THEN [st |-> st, undo |-> cmds]
    ELSE LET h == head(st, from)
             q == Slot_cards(st, from)
             s1 == Slot_stack(st, to, h)
         IN  [st |-> ForEach(LAMBDA x, c : flip(x, c, "FACEDOWN"), s1, q),
              undo |-> Append(cmds, Command("stack", from, h, "SAME"))]

\* The loop of Klondike.click and Backbone.click on the stock slot: deal the
\* waste back to the stock, one undo command for each deal
recycle(st, cmds, from, to) ==
    WhileDo(LAMBDA r : ~is_empty(r.st, from),
            LAMBDA r : [st |-> deal(r.st, from, <<to>>, "FACEDOWN"),
                        undo |-> Append(r.undo, Command("deal", to, from, "FACEUP"))],
            [st |-> st, undo |-> cmds],
            Cardinality(CardsOf(st)))

\* Klondike.click that deals the tail of the stock without turning it
Klondike_click_without_flip(g, st, item) ==
    IF IsSlot(item)
    THEN IF item[2] = Stock
         THEN LET r == recycle(st, <<>>, Waste, Stock)
              IN  [st |-> [r.st EXCEPT !.undocmds = Append(@, r.undo)],
                   ret |-> TRUE]
         ELSE [st |-> st, ret |-> FALSE]
    ELSE LET c == item[2]
         IN  IF is_tail(st, c) /\ ~st.faceup[c]
             THEN IF st.slot[c] = Stock
                  THEN [st |-> [deal(st, Stock, <<Waste>>, "SAME") EXCEPT
                                   !.undocmds = Append(@,
                                       <<Command("deal", Waste, Stock, "SAME")>>)],
                        ret |-> TRUE]
                  ELSE [st |-> [flip(st, c, "TOGGLE") EXCEPT
                                   !.undocmds = Append(@,
                                       <<Command("flip", c, None, "TOGGLE")>>)],
                        ret |-> TRUE]
             ELSE [st |-> st, ret |-> FALSE]

\* Klondike.click
Klondike_click(g, st, item) ==
    IF IsSlot(item)
    THEN IF item[2] = Stock
         THEN LET r == recycle(st, <<>>, Waste, Stock)
              IN  [st |-> [r.st EXCEPT !.undocmds = Append(@, r.undo)],
                   ret |-> TRUE]
         ELSE [st |-> st, ret |-> FALSE]
    ELSE LET c == item[2]
         IN  IF is_tail(st, c) /\ ~st.faceup[c]
             THEN LET instock == st.slot[c] = Stock
                      s1 == IF instock THEN deal(st, Stock, <<Waste>>, "SAME") ELSE st
                      u1 == IF instock THEN <<Command("deal", Waste, Stock, "SAME")>>
                            ELSE <<>>
                      s2 == flip(s1, c, "TOGGLE")
                      u2 == Append(u1, Command("flip", c, None, "TOGGLE"))
                  IN  [st |-> [s2 EXCEPT !.undocmds = Append(@, u2)], ret |-> TRUE]
             ELSE [st |-> st, ret |-> FALSE]

\* Backbone.click that takes the waste back without counting the redeal
Backbone_click_free_redeals(g, st, item) ==
    IF IsSlot(item)
    THEN IF item[2] = Stock /\ st.redeals > 0
         THEN [st |-> recycle(st, <<>>, Waste, Stock).st, ret |-> FALSE]
         ELSE [st |-> st, ret |-> FALSE]
    ELSE IF st.slot[item[2]] = Stock
         THEN [st |-> add_undo(deal(st, Stock, <<Waste>>, "FACEUP"),
                               Command("deal", Waste, Stock, "FACEDOWN")),
               ret |-> TRUE]
         ELSE [st |-> st, ret |-> FALSE]

\* Backbone.click
Backbone_click(g, st, item) ==
    IF IsSlot(item)
    THEN IF item[2] = Stock /\ st.redeals > 0
         THEN LET r == recycle(st, <<>>, Waste, Stock)
              IN  [st |-> [r.st EXCEPT !.redeals = @ - 1], ret |-> FALSE]
         ELSE [st |-> st, ret |-> FALSE]
    ELSE IF st.slot[item[2]] = Stock
         THEN [st |-> add_undo(deal(st, Stock, <<Waste>>, "FACEUP"),
                               Command("deal", Waste, Stock, "FACEDOWN")),
               ret |-> TRUE]
         ELSE [st |-> st, ret |-> FALSE]

\* click of the game's class (Test.click returns at once)
click(g, st, item) ==
    CASE g \in KlondikeFamily -> Klondike_click(g, st, item)
      [] g = "Backbone" -> Backbone_click(g, st, item)
      [] g = "Test" -> [st |-> st, ret |-> FALSE]

\* Game.double_click_to_foundations that does not ask draggable
double_click_any_card(g, st, item, fnds) ==
    IF \/ IsSlot(item)
       \/ st.slot[item[2]] \in Range(fnds)
    THEN [st |-> st, ret |-> FALSE]
    ELSE LET targets == [i \in 1..Len(fnds) |->
                            IF is_empty(st, fnds[i]) THEN SlotItem(fnds[i])
                            ELSE CardItem(tail(st, fnds[i]))]
             droplist == droppable(g, st, item[2], targets)
         IN  IF droplist # <<>>
             THEN [st |-> drop(g, st, item[2], droplist[1]), ret |-> TRUE]
             ELSE [st |-> st, ret |-> FALSE]

\* Game.double_click_to_foundations
double_click_to_foundations(g, st, item, fnds) ==
    IF \/ IsSlot(item)
       \/ st.slot[item[2]] \in Range(fnds)
       \/ ~draggable(g, st, item[2])
    THEN [st |-> st, ret |-> FALSE]
    ELSE LET targets == [i \in 1..Len(fnds) |->
                            IF is_empty(st, fnds[i]) THEN SlotItem(fnds[i])
                            ELSE CardItem(tail(st, fnds[i]))]
             droplist == droppable(g, st, item[2], targets)
         IN  IF droplist # <<>>
             THEN [st |-> drop(g, st, item[2], droplist[1]), ret |-> TRUE]
             ELSE [st |-> st, ret |-> FALSE]

\* doubleclick of the game's class (Game.doubleclick does nothing)
doubleclick(g, st, item) ==
    IF g = "Test" THEN [st |-> st, ret |-> FALSE]
    ELSE double_click_to_foundations(g, st, item, foundations(g))

\* for card in deck.cards: s.stack(card); card.flip(mode)
stack_all(st, s, q, mode) ==
    ForEach(LAMBDA x, c : flip(Slot_stack(x, s, c), c, mode), st, q)

\* Klondike.setup
Klondike_setup(g, st, deckcards) ==
    ForEach(LAMBDA x, i :
                deal(deal(x, Stock, <<tableau(g)[i]>>, "FACEUP"),
                     Stock, SubSeq(tableau(g), i + 1, Len(tableau(g))), "FACEDOWN"),
            stack_all(st, Stock, deckcards, "FACEDOWN"),
            [i \in 1..Len(tableau(g)) |-> i])

\* while not s.is_empty: s.deal(targets, mode)
deal_while(st, s, targets, mode) ==
    WhileDo(LAMBDA x : ~is_empty(x, s),
            LAMBDA x : deal(x, s, targets, mode),
            st, Cardinality(CardsOf(st)))

\* Win.setup
Win_setup(g, st, deckcards) ==
    ForEach(LAMBDA x, s : deal_while(x, s, <<foundations(g)[1]>>, "FACEUP"),
            Klondike_setup(g, st, deckcards), Append(tableau(g), Stock))

\* Yukon.setup(i=0): the extra cards go to every column
Yukon_setup_from_first_column(g, st, deckcards) ==
    deal_while(Klondike_setup(g, st, deckcards), Stock, tableau(g), "FACEUP")

\* Yukon.setup(i=1): the extra cards go to the columns from the second on
Yukon_setup(g, st, deckcards) ==
    deal_while(Klondike_setup(g, st, deckcards), Stock,
               SubSeq(tableau(g), 2, Len(tableau(g))), "FACEUP")

\* Backbone.setup
Backbone_setup(g, st, deckcards) ==
    LET s1 == stack_all(st, Stock, deckcards, "FACEDOWN")
        s2 == deal(s1, Stock, tableau(g) \o backbone(g) \o <<block>>, "FACEUP")
    IN  [s2 EXCEPT !.redeals = 1]

\* Test.setup
Test_setup(g, st, deckcards) == stack_all(st, slots(g)[2], deckcards, "FACEUP")

\* setup of the game's class
setup(g, st, deckcards) ==
    CASE g = "Klondike" -> Klondike_setup(g, st, deckcards)
      [] g = "Win" -> Win_setup(g, st, deckcards)
      [] g \in {"Yukon", "Pylitaire"} -> Yukon_setup(g, st, deckcards)
      [] g = "Backbone" -> Backbone_setup(g, st, deckcards)
      [] g = "Test" -> Test_setup(g, st, deckcards)

\* Game.restart that leaves the stacks as they are
restart_without_pop_cards(g, st, deckcards) ==
    setup(g, [st EXCEPT !.undocmds = <<>>], deckcards)

\* Game.restart
restart(g, st, deckcards) ==
    setup(g, pop_cards([st EXCEPT !.undocmds = <<>>], deckcards), deckcards)

\* Game.score, Game.win, Test.win
score(g, st) ==
    LET f == foundations(g)
        RECURSIVE sum(_)
        sum(i) == IF i > Len(f) THEN 0
                  ELSE (IF f[i] \in Range(slots(g)) THEN Len(Slot_cards(st, f[i])) ELSE 0)
                       + sum(i + 1)
    IN  sum(1)

\* Game.win that is content with the cards of one suit
win_on_first_suit(g, st, deckcards) ==
    IF g = "Test" THEN ~is_empty(st, slots(g)[Len(slots(g))])
    ELSE score(g, st) >= NumRanks

win(g, st, deckcards) ==
    IF g = "Test" THEN ~is_empty(st, slots(g)[Len(slots(g))])
    ELSE score(g, st) = Len(deckcards)

\* ------------------------------------------------------- the corrections
\* Card.stack takes one of its correcting paths: the target is a descendant
\* of the card, or has a child
stack_corrects(st, c, t) ==
    t # c /\ (t \in Range(children(st, c)) \/ st.child[t] # None)

\* Card.place takes its correcting path: the slot has another head
place_corrects(st, c, s) == st.slot_child[s] # None /\ st.slot_child[s] # c

\* Slot.stack
Slot_stack_corrects(st, s, c) ==
    IF is_empty(st, s) THEN place_corrects(st, c, s)
    ELSE stack_corrects(st, c, tail(st, s))

\* Slot.deal: some Slot.stack of the loop takes a correcting path
deal_corrects(st, s, targets, mode) ==
    ForEach(LAMBDA x, t :
                IF is_empty(x.st, s) THEN x
                ELSE [st |-> Slot_stack(flip(x.st, tail(x.st, s), mode), t, tail(x.st, s)),
                      w |-> x.w \/ Slot_stack_corrects(x.st, t, tail(x.st, s))],
            [st |-> st, w |-> FALSE], targets).w

\* Command.execute
execute_corrects(st, cmd) ==
    CASE cmd.op = "deal"  -> deal_corrects(st, cmd.a, <<cmd.b>>, cmd.mode)
      [] cmd.op = "flip"  -> FALSE
      [] cmd.op = "stack" -> Slot_stack_corrects(st, cmd.a, cmd.b)
      [] cmd.op = "undo_redeals" -> FALSE

\* Game.undo: some command of the entry takes a correcting path
undo_corrects(st) ==
    ForEach(LAMBDA x, cmd : [st |-> execute(x.st, cmd),
                             w |-> x.w \/ execute_corrects(x.st, cmd)],
            [st |-> st, w |-> FALSE],
            Reverse(st.undocmds[Len(st.undocmds)])).w

\* Game.drop
drop_corrects(st, c, target) ==
    IF IsSlot(target) THEN place_corrects(st, c, target[2])
    ELSE stack_corrects(st, c, target[2])

\* The loop of the click on the stock slot
recycle_corrects(st, from, to) ==
    WhileDo(LAMBDA r : ~is_empty(r.st, from),
            LAMBDA r : [st |-> deal(r.st, from, <<to>>, "FACEDOWN"),
                        w |-> r.w \/ deal_corrects(r.st, from, <<to>>, "FACEDOWN")],
            [st |-> st, w |-> FALSE],
            Cardinality(CardsOf(st))).w

\* Klondike.click, Backbone.click (Test.click returns at once)
click_corrects(g, st, item) ==
    CASE g \in KlondikeFamily ->
            IF IsSlot(item)
            THEN item[2] = Stock /\ recycle_corrects(st, Waste, Stock)
            ELSE /\ is_tail(st, item[2]) /\ ~st.faceup[item[2]]
                 /\ st.slot[item[2]] = Stock
                 /\ deal_corrects(st, Stock, <<Waste>>, "SAME")
      [] g = "Backbone" ->
            IF IsSlot(item)
            THEN /\ item[2] = Stock /\ st.redeals > 0
                 /\ recycle_corrects(st, Waste, Stock)
            ELSE /\ st.slot[item[2]] = Stock
                 /\ deal_corrects(st, Stock, <<Waste>>, "FACEUP")
      [] g = "Test" -> FALSE

\* Game.double_click_to_foundations
doubleclick_corrects(g, st, item) ==
    /\ g # "Test"
    /\ ~IsSlot(item)
    /\ st.slot[item[2]] \notin Range(foundations(g))
    /\ draggable(g, st, item[2])
    /\ LET fnds == foundations(g)
           targets == [i \in 1..Len(fnds) |->
                          IF is_empty(st, fnds[i]) THEN SlotItem(fnds[i])
                          ELSE CardItem(tail(st, fnds[i]))]
           droplist == droppable(g, st, item[2], targets)
       IN  droplist # <<>> /\ drop_corrects(st, item[2], droplist[1])

\* ---------------------------------------------------------------- helpers
\* No item: self.card, clickcard or doubleclickcard is None
NoItem == <<"none", 0>>

\* Gui.__init__, Gui.load_game
NoGui == [dragcard |-> None, clickcard |-> NoItem, doubleclickcard |-> NoItem,
          win |-> FALSE, running |-> TRUE, pressed |-> FALSE]

CommitLinks(st) ==
    /\ parent' = st.parent
    /\ child' = st.child
    /\ slot' = st.slot
    /\ slot_child' = st.slot_child
    /\ faceup' = st.faceup
    /\ undocmds' = st.undocmds
    /\ redeals' = st.redeals

Commit(st) ==
    /\ CommitLinks(st)
    /\ UNCHANGED <<rect, drag_start_pos, drag_offset, gui>>

\* The history of a deal in which nothing was played
NoHist == [strayed |-> FALSE, wastes |-> <<>>, origin |-> <<>>, started |-> None,
           open |-> None, forgotten |-> FALSE]

\* The history of an instance on which nothing was called
NoLast == [op |-> "none", item |-> NoItem, target |-> NoItem,
           strayed |-> FALSE, changed |-> FALSE, ret |-> FALSE, raised |-> FALSE,
           prev |-> "none", prevchanged |-> FALSE, prevret |-> FALSE,
           slots |-> <<>>, mode |-> "SAME"]

\* Sequences over S of length 1..n
SeqsUpTo(S, n) == UNION {[1..k -> S] : k \in 1..n}

\* --------------------------------------------- cards and slots on their own
\* A deck of MaxCards cards and MaxSlots slots outside any game; every
\* operation of Card and Slot that changes links can be called with any
\* arguments.
\* n new cards and MaxSlots new slots
NewLoose(n) ==
    [parent |-> [c \in 1..n |-> None],
     child |-> [c \in 1..n |-> None],
     slot |-> [c \in 1..n |-> None],
     slot_child |-> [s \in 1..MaxSlots |-> None],
     faceup |-> [c \in 1..n |-> TRUE],
     undocmds |-> <<>>,
     redeals |-> 0]

\* The first k + 1 of n new cards stacked in the order of their numbers
Stacked(n, k) ==
    ForEach(LAMBDA x, c : Card_stack(x, c + 1, c), NewLoose(n), [i \in 1..k |-> i])

\* n cards and MaxSlots slots linked as in st, no game
InitLinked(n, st) ==
    /\ game = "none"
    /\ cards = [i \in 1..n |-> i]
    /\ parent = st.parent
    /\ child = st.child
    /\ slot = st.slot
    /\ slot_child = st.slot_child
    /\ faceup = st.faceup
    /\ rect = [c \in 1..n |-> <<c, 2 * c>>]
    /\ drag_start_pos = [c \in 1..n |-> <<>>]
    /\ drag_offset = [c \in 1..n |-> <<>>]
    /\ gui = NoGui
    /\ undocmds = <<>>
    /\ seed = 0
    /\ redeals = 0
    /\ dealt = FALSE
    /\ moves = 0
    /\ hist = NoHist
    /\ last = NoLast
    /\ before = <<>>

InitCards == InitLinked(MaxCards, NewLoose(MaxCards))

InitChains == InitLinked(MaxChain, NewLoose(MaxChain))

Frame == before' = <<>> /\ UNCHANGED <<game, cards, seed, dealt, moves, hist>>

\* The history of a call: which of the special cases of its arguments it was
Called(case) == last' = [NoLast EXCEPT !.op = case]

\* The modes Slot.deal is called with here: the facing plays no part in the
\* links, and the cards are face-up from the start
DealModes == {"SAME", "FACEUP"}

DoCardStack ==
    \E c \in CardsOf(Cur), t \in CardsOf(Cur) :
        /\ Commit(Card_stack(Cur, c, t))
        /\ last' = [NoLast EXCEPT
                      !.op = CASE t = c -> "stack on itself"
                               [] t \in Range(children(Cur, c)) -> "stack on descendant"
                               [] c \in Range(children(Cur, t)) -> "stack on ancestor"
                               [] child[t] # None -> "stack on card with child"
                               [] OTHER -> "stack",
                      !.item = CardItem(c), !.target = CardItem(t)]
        /\ before' = Cur
        /\ UNCHANGED <<game, cards, seed, dealt, moves, hist>>

\* c.stack(t) immediately followed by c.pop()
DoCardStackPop ==
    \E c \in CardsOf(Cur) : \E t \in CardsOf(Cur) \ {c} :
        /\ Commit(pop(Card_stack(Cur, c, t), c))
        /\ last' = [NoLast EXCEPT !.op = "stack, pop",
                      !.item = CardItem(c), !.target = CardItem(t)]
        /\ before' = Cur
        /\ UNCHANGED <<game, cards, seed, dealt, moves, hist>>

DoCardPop ==
    \E c \in CardsOf(Cur) :
        /\ Commit(pop(Cur, c))
        /\ last' = [NoLast EXCEPT
                      !.op = IF slot[c] # None /\ slot_child[slot[c]] = c
                             THEN "pop head" ELSE "pop",
                      !.item = CardItem(c)]
        /\ before' = Cur
        /\ UNCHANGED <<game, cards, seed, dealt, moves, hist>>

DoCardPlace ==
    \E c \in CardsOf(Cur), s \in SlotsOf(Cur) :
        /\ Commit(place(Cur, c, s))
        /\ last' = [NoLast EXCEPT
                      !.op = IF slot_child[s] \notin {None, c}
                             THEN "place on occupied slot" ELSE "place",
                      !.item = CardItem(c), !.target = SlotItem(s)]
        /\ before' = Cur
        /\ UNCHANGED <<game, cards, seed, dealt, moves, hist>>

DoSlotStack ==
    \E s \in SlotsOf(Cur), c \in CardsOf(Cur) :
        /\ Commit(Slot_stack(Cur, s, c))
        /\ last' = [NoLast EXCEPT !.op = "Slot.stack",
                      !.item = CardItem(c), !.target = SlotItem(s)]
        /\ before' = Cur
        /\ UNCHANGED <<game, cards, seed, dealt, moves, hist>>

DoSlotDeal ==
    \E s \in SlotsOf(Cur), q \in SeqsUpTo(SlotsOf(Cur), MaxTargets), m \in DealModes :
        /\ Commit(deal(Cur, s, q, m))
        /\ Called("call")
        /\ Frame

DoPopCards ==
    /\ Commit(pop_cards(Cur, cards))
    /\ Called("pop_cards")
    /\ before' = Cur
    /\ UNCHANGED <<game, cards, seed, dealt, moves, hist>>

NextCards ==
    \/ DoPopCards
    \/ DoCardStack
    \/ DoCardStackPop
    \/ DoCardPop
    \/ DoCardPlace
    \/ DoSlotStack
    \/ DoSlotDeal

SpecCards == InitCards /\ [][NextCards]_vars

\* The drag calls on MaxCards cards that are loose, or stacked in the order
\* of their numbers from the first on.  hist.origin keeps the positions at
\* the last start_drag; last.prev is "start_drag" as long as the calls since
\* then were drag calls on the same card.
InitDrag == \E k \in 0..(MaxCards - 1) : InitLinked(MaxCards, Stacked(MaxCards, k))

\* The mouse positions
MousePos == (0..MaxPos) \X (0..MaxPos)

\* A drag call that leaves geo
DragCall(name, c, geo, h) ==
    /\ rect' = geo.rect
    /\ drag_start_pos' = geo.drag_start_pos
    /\ drag_offset' = geo.drag_offset
    /\ last' = [NoLast EXCEPT !.op = name, !.item = CardItem(c),
                  !.raised = geo.raised,
                  !.prev = IF name = "start_drag"
                              \/ (/\ name # "drop"
                                  /\ last.op \in {"start_drag", "drag"}
                                  /\ last.item = CardItem(c)
                                  /\ last.prev = "start_drag")
                           THEN "start_drag" ELSE "none"]
    /\ hist' = h
    /\ before' = [rect |-> rect, drag_start_pos |-> drag_start_pos,
                  drag_offset |-> drag_offset]
    /\ moves < MaxDrags
    /\ moves' = moves + 1
    /\ UNCHANGED <<game, cards, parent, child, slot, slot_child, faceup,
                   undocmds, seed, redeals, dealt, gui>>

StartDrag ==
    \E c \in CardsOf(Cur), p \in MousePos :
           DragCall("start_drag", c, start_drag(Cur, Geo, c, p),
                    [hist EXCEPT !.origin = rect])

Drag ==
    \E c \in CardsOf(Cur), p \in MousePos :
           DragCall("drag", c, drag(Cur, Geo, c, p), hist)

AbortDrag ==
    \E c \in CardsOf(Cur) :
           DragCall("abort_drag", c, abort_drag(Cur, Geo, c), hist)

CardDrop ==
    \E c \in CardsOf(Cur) :
           DragCall("drop", c, Card_drop(Cur, Geo, c), hist)

NextDrag ==
    \/ StartDrag
    \/ Drag
    \/ AbortDrag
    \/ CardDrop

SpecDrag == InitDrag /\ [][NextDrag]_vars

\* Deals between MaxDealSlots slots: each card of the deck is stacked on
\* some slot, in the order of the deck, and faces either way; then Slot.deal
\* is called on any slot with any list of up to MaxTargets of the other slots
\* and any facing.  last.slots and last.mode keep the arguments of the deal.
InitSlots ==
    \E f \in [1..MaxCards -> 1..MaxDealSlots], up \in [1..MaxCards -> BOOLEAN] :
        InitLinked(MaxCards,
                   ForEach(LAMBDA x, c : Slot_stack(x, f[c], c),
                           [NewLoose(MaxCards) EXCEPT
                               !.slot_child = [s \in 1..MaxDealSlots |-> None],
                               !.faceup = up],
                           [i \in 1..MaxCards |-> i]))

DoSlotDealTo ==
    \E s \in SlotsOf(Cur) :
        \E q \in SeqsUpTo(SlotsOf(Cur) \ {s}, MaxTargets), m \in TURN :
            /\ moves < MaxDeals
            /\ Commit(deal(Cur, s, q, m))
            /\ last' = [NoLast EXCEPT !.op = "deal", !.item = SlotItem(s),
                          !.slots = q, !.mode = m]
            /\ before' = Cur
            /\ moves' = moves + 1
            /\ UNCHANGED <<game, cards, seed, dealt, hist>>

NextSlots == DoSlotDealTo

SpecSlots == InitSlots /\ [][NextSlots]_vars

\* The calls of the cards alone, on chains of up to MaxChain cards
NextChains ==
    \/ DoCardStack
    \/ DoCardPop
    \/ DoCardPlace

SpecChains == InitChains /\ [][NextChains]_vars

\* ------------------------------------------------------------ the sessions
MaxMoves == 2      \* gestures the player makes after a deal
MaxLong == 4       \* gestures of a long session
MaxBelow == 1      \* the player handles cards with at most this many cards below
MaxOffer == 1      \* gestures made before droppable is asked
MaxDouble == 3     \* double-clicks that move a card in a session of double-clicks
MaxRedeals == 1    \* clicks on the stock slot in a session of redeals
MaxLegal == 3      \* gestures of a session of legal play
MaxEvents == 4     \* events handled by the loop of the GUI after the deal

\* Seeds handed to new_game, and drawn by it when it is handed none
Seeds == {7, 42}

\* An order in which Deck.shuffle may leave the first 52 cards of the deck,
\* written as the order in which the stock then deals them (tail first)
DealOrder ==
    <<  1,  3,  4,  6,  7,  8,  9,  2, 10, 11, 12, 13, 17,
       39, 18, 19, 20, 21, 16, 22, 23, 24, 42, 25, 29, 31,
       32, 33, 27, 28, 34, 35, 36, 37, 38, 48, 41, 43, 45,
       46, 47, 40, 51, 49, 30, 50, 14, 15,  5, 26, 44, 52 >>

\* The results of random.shuffle the sessions draw from
Shuffles(n) ==
    { Reverse([i \in 1..n |-> IF i <= Len(DealOrder) THEN DealOrder[i] ELSE i]),
      Reverse([i \in 1..n |-> i]) }

\* What a player sees: the slot of every card, the chain of every slot, the
\* facing of every card
Obs(g, st) ==
    [slot |-> st.slot,
     chain |-> [s \in 1..NumSlotObjects(g) |-> Slot_cards(st, s)],
     faceup |-> st.faceup]

\* All cards, then the slots of Game.slots
Items(g, st) ==
    [i \in 1..Cardinality(CardsOf(st)) |-> CardItem(i)]
    \o [i \in 1..Len(slots(g)) |-> SlotItem(slots(g)[i])]

\* The cards the player handles: those with at most MaxBelow cards below
Handled(st) ==
    {c \in CardsOf(st) : Len(ChainFrom(st.child, c, MaxBelow + 2)) <= MaxBelow + 1}

\* The items the player clicks: the handled cards and the slots of the game
Clickable(g, st) ==
    {CardItem(c) : c \in Handled(st)} \cup {SlotItem(s) : s \in Range(slots(g))}

\* Gui._handle_event, MOUSEBUTTONUP: the drop candidates are the cards of the
\* deck but the dragged card and its descendants, and the slots of the game
Candidates(g, st, c) ==
    LET kids == Range(children(st, c))
    IN  SelectSeq(Items(g, st), LAMBDA t :
            IsSlot(t) \/ (t[2] # c /\ t[2] \notin kids))

\* A game of class g after construction, its deck in the order q
InitDeck(g, q) ==
    /\ game = g
    /\ cards = q
    /\ parent = [c \in 1..NumCardsOf(g) |-> None]
    /\ child = [c \in 1..NumCardsOf(g) |-> None]
    /\ slot = [c \in 1..NumCardsOf(g) |-> None]
    /\ slot_child = [s \in 1..NumSlotObjects(g) |-> None]
    /\ faceup = [c \in 1..NumCardsOf(g) |-> InitFaceup(g)]
    /\ rect = [c \in 1..NumCardsOf(g) |-> <<0, 0>>]
    /\ drag_start_pos = [c \in 1..NumCardsOf(g) |-> <<>>]
    /\ drag_offset = [c \in 1..NumCardsOf(g) |-> <<>>]
    /\ gui = NoGui
    /\ undocmds = <<>>
    /\ seed = 0
    /\ redeals = IF g = "Backbone" THEN 1 ELSE 0
    /\ dealt = FALSE
    /\ moves = 0
    /\ hist = NoHist
    /\ last = NoLast
    /\ before = <<>>

\* A game of class g after construction: the deck is in creation order
InitGame(g) == InitDeck(g, [i \in 1..NumCardsOf(g) |-> i])

InitPlay == \E g \in Games : InitGame(g)

\* Deck.shuffle, called before the first deal
Shuffle ==
    /\ ~dealt
    /\ \E q \in Shuffles(Len(cards)) : cards' = q
    /\ last' = [NoLast EXCEPT !.op = "shuffle"]
    /\ UNCHANGED <<game, parent, child, slot, slot_child, faceup, undocmds,
                   seed, redeals, dealt, moves, hist, before,
                   rect, drag_start_pos, drag_offset, gui>>

\* Game.restart
Restart ==
    /\ Commit(restart(game, Cur, cards))
    /\ dealt' = TRUE
    /\ moves' = 0
    /\ hist' = NoHist
    /\ last' = [NoLast EXCEPT !.op = "restart", !.prev = last.op]
    /\ before' = Cur
    /\ UNCHANGED <<game, cards, seed>>

\* The deal that opens a session: restart() on the new instance
FirstDeal ==
    /\ ~dealt
    /\ Restart

\* Game.new_game(s): Deck.shuffle takes no seed, so the call
\* self.deck.shuffle(self.seed) raises TypeError once the seed is stored
NewGame ==
    \E s \in Seeds \cup {0}, r \in Seeds :
        /\ seed' = IF s = 0 THEN r ELSE s
        /\ last' = [NoLast EXCEPT !.op = "new_game", !.raised = TRUE]
        /\ before' = <<>>
        /\ UNCHANGED <<game, cards, parent, child, slot, slot_child, faceup,
                       undocmds, redeals, dealt, moves, hist,
                       rect, drag_start_pos, drag_offset, gui>>

\* A gesture on an item with result r = [st, ret] and history h of the deal.
\* The history of the call keeps the item of a gesture that had an effect.
Gesture(name, item, r, h) ==
    LET changed == /\ r.st # Cur
                   /\ \/ Obs(game, r.st) # Obs(game, Cur)
                      \/ r.st.redeals # redeals
    IN  /\ Commit(r.st)
        /\ moves' = moves + 1
        /\ last' = [NoLast EXCEPT !.op = name, !.ret = r.ret, !.changed = changed,
                      !.item = IF changed \/ r.ret THEN item ELSE @,
                      !.target = IF name = "drop" THEN r.target ELSE @,
                      !.strayed = name = "drop" /\ r.strayed]
        /\ hist' = h
        /\ before' = Cur
        /\ UNCHANGED <<game, cards, seed, dealt>>

\* Game.click(item), while fewer than n gestures were made
Click(n) ==
    /\ dealt /\ moves < n
    /\ \E item \in Clickable(game, Cur) :
           \E r \in {click(game, Cur, item)} : Gesture("click", item, r, hist)

\* Game.doubleclick(item)
DoubleClick(n) ==
    /\ dealt /\ moves < n
    /\ \E item \in Clickable(game, Cur) :
           \E r \in {doubleclick(game, Cur, item)} : Gesture("doubleclick", item, r, hist)

\* Game.drop(card, target) for a draggable card and a target that droppable
\* returns.  A drop strays when the target is not among the candidates of the
\* GUI.
Drop(n) ==
    /\ dealt /\ moves < n
    /\ \E c \in Handled(Cur) :
        /\ draggable(game, Cur, c)
        /\ \E t \in Range(droppable(game, Cur, c, Items(game, Cur))) :
               \E r \in {[st |-> drop(game, Cur, c, t), ret |-> FALSE, target |-> t,
                          strayed |-> t \notin Range(Candidates(game, Cur, c))]} :
                   Gesture("drop", CardItem(c), r,
                           [hist EXCEPT !.strayed = @ \/ r.strayed])

\* Game.drop(card, target) as the GUI calls it: the target is none of the
\* dragged card and its descendants
GuiDrop(n) ==
    /\ dealt /\ moves < n
    /\ \E c \in Handled(Cur) :
        /\ draggable(game, Cur, c)
        /\ \E t \in Range(droppable(game, Cur, c, Candidates(game, Cur, c))) :
               \E r \in {[st |-> drop(game, Cur, c, t), ret |-> FALSE, target |-> t,
                          strayed |-> FALSE]} :
                   Gesture("drop", CardItem(c), r, hist)

\* Game.undo(), called when undoable()
Undo ==
    /\ dealt /\ undoable(Cur)
    /\ Commit(undo(Cur))
    /\ last' = [NoLast EXCEPT !.op = "undo", !.item = last.item, !.prev = last.op,
                  !.prevchanged = last.changed, !.prevret = last.ret]
    /\ before' = before
    /\ UNCHANGED <<game, cards, seed, dealt, moves, hist>>

\* A session of play through the Game API: one deal, then gestures and undo
NextPlay ==
    \/ Shuffle
    \/ FirstDeal
    \/ Click(MaxMoves)
    \/ DoubleClick(MaxMoves)
    \/ Drop(MaxMoves)
    \/ Undo

SpecPlay == InitPlay /\ [][NextPlay]_vars

\* A session of play as the GUI drives it
NextGui ==
    \/ Shuffle
    \/ FirstDeal
    \/ Click(MaxMoves)
    \/ DoubleClick(MaxMoves)
    \/ GuiDrop(MaxMoves)
    \/ Undo

SpecGui == InitPlay /\ [][NextGui]_vars

\* Construction, shuffling and dealing, at any time between clicks
NextDeal ==
    \/ Shuffle
    \/ Restart
    \/ NewGame
    \/ Click(MaxMoves)

SpecDeal == InitPlay /\ [][NextDeal]_vars

\* Passes through the Klondike stock: click(stock tail card) deals one card
\* to the waste, click(stock slot) takes the waste back.  hist.wastes keeps,
\* for each click on the stock slot, the waste from head to tail as it was
\* when the stock was empty, and <<>> when the stock still had cards.
InitRedeal == \E q \in Shuffles(NumCardsOf("Klondike")) : InitDeck("Klondike", q)

ClickStockTail ==
    /\ dealt /\ ~is_empty(Cur, Stock)
    /\ \E r \in {click(game, Cur, CardItem(tail(Cur, Stock)))} :
           Gesture("click", CardItem(tail(Cur, Stock)), r, hist)

ClickStockSlot ==
    /\ dealt /\ Len(hist.wastes) < MaxRedeals
    /\ \E r \in {click(game, Cur, SlotItem(Stock))} :
           Gesture("click", SlotItem(Stock), r,
                   [hist EXCEPT !.wastes =
                       Append(@, IF is_empty(Cur, Stock)
                                 THEN Slot_cards(Cur, Waste) ELSE <<>>)])

NextRedeal ==
    \/ FirstDeal
    \/ ClickStockTail
    \/ ClickStockSlot

SpecRedeal == InitRedeal /\ [][NextRedeal]_vars

\* A deal of Yukon that double-clicks alone solve: every column runs down
\* from its head to its tail in the order of creation of the cards
SolvableOrder ==
    <<52, 51, 45, 38, 30, 21, 11, 50, 44, 37, 29, 20, 10,
      43, 36, 28, 19,  9, 35, 27, 18,  8, 26, 17,  7, 16,
       6,  5, 49, 42, 34, 25, 15,  4, 48, 41, 33, 24, 14,
       3, 47, 40, 32, 23, 13,  2, 46, 39, 31, 22, 12,  1>>

\* A game played to its end: after at most MaxMoves gestures of any kind
\* the player only makes the clicks and double-clicks that the game takes
InitSolve ==
    \E g \in {"Yukon", "Pylitaire", "Win", "Test"} : InitDeck(g, Reverse(SolvableOrder))

TakenClick ==
    /\ dealt
    /\ \E item \in Clickable(game, Cur) :
           \E r \in {click(game, Cur, item)} :
               r.ret /\ Gesture("click", item, r, hist)

TakenDoubleClick ==
    /\ dealt
    /\ \E item \in Clickable(game, Cur) :
           \E r \in {doubleclick(game, Cur, item)} :
               r.ret /\ Gesture("doubleclick", item, r, hist)

NextSolve ==
    \/ FirstDeal
    \/ TakenClick
    \/ TakenDoubleClick
    \/ GuiDrop(MaxMoves)

SpecSolve == InitSolve /\ [][NextSolve]_vars

\* The candidates a caller offers to droppable: the foundation and tableau
\* slots and the tail card of every slot, in lists of up to MaxTargets items
\* in any order
Offered(g, st) ==
    {SlotItem(x) : x \in Range(foundations(g)) \cup Range(tableau(g))}
        \cup {CardItem(tail(st, x)) : x \in {y \in Range(slots(g)) : ~is_empty(st, y)}}

TargetLists(g, st) == SeqsUpTo(Offered(g, st), MaxTargets)

\* The states in which droppable is asked: a deal and one gesture
InitOffer == \E g \in Games : \E q \in Shuffles(NumCardsOf(g)) : InitDeck(g, q)

NextOffer ==
    \/ FirstDeal
    \/ Click(MaxOffer)
    \/ DoubleClick(MaxOffer)
    \/ GuiDrop(MaxOffer)

SpecOffer == InitOffer /\ [][NextOffer]_vars

\* The instance as its constructor leaves it: every card outside the slots
NewInstance(g) ==
    [parent |-> [c \in 1..NumCardsOf(g) |-> None],
     child |-> [c \in 1..NumCardsOf(g) |-> None],
     slot |-> [c \in 1..NumCardsOf(g) |-> None],
     slot_child |-> [s \in 1..NumSlotObjects(g) |-> None],
     faceup |-> [c \in 1..NumCardsOf(g) |-> InitFaceup(g)],
     undocmds |-> <<>>,
     redeals |-> IF g = "Backbone" THEN 1 ELSE 0]

\* The state that follows the deal of new_game: restart() on the new instance
FirstRestart(g, deckcards) == restart(g, NewInstance(g), deckcards)

\* Sessions in which restart() is called at any time
NextRestart ==
    \/ Restart
    \/ Click(MaxMoves)
    \/ DoubleClick(MaxMoves)
    \/ Drop(MaxMoves)
    \/ Undo

SpecRestart == InitPlay /\ [][NextRestart]_vars

\* A deal of Backbone in which double-clicks free the backbone from its
\* end: the Ace of clubs on the block slot, then the clubs up the backbone
BackboneOrder ==
    [i \in 1..(2 * NumRanks * NumSuits) |->
        IF i <= 8 THEN 26 + i
        ELSE IF i <= 27 THEN 28 - i
        ELSE IF i <= 34 THEN i - 8
        ELSE i]

InitBackbone ==
    \E q \in {BackboneOrder, [i \in 1..(2 * NumRanks * NumSuits) |-> i]} :
        InitDeck("Backbone", Reverse(q))

\* A session of Backbone through the Game API
NextBackbone ==
    \/ FirstDeal
    \/ Click(MaxMoves)
    \/ DoubleClick(MaxMoves)
    \/ Drop(MaxMoves)
    \/ Undo

SpecBackbone == InitBackbone /\ [][NextBackbone]_vars

\* The stock of Backbone: clicks on the tail card of the stock and on the
\* stock slot, undo and restart() at any time.  The history keeps the item
\* of every click.
ClickStock(n) ==
    /\ dealt /\ moves < n
    /\ \E item \in {SlotItem(Stock)}
                    \cup {CardItem(c) : c \in {tail(Cur, Stock)} \ {None}} :
           \E r \in {click(game, Cur, item)} :
               /\ Commit(r.st)
               /\ moves' = moves + 1
               /\ last' = [NoLast EXCEPT !.op = "click", !.ret = r.ret,
                             !.changed = r.st # Cur, !.item = item]
               /\ hist' = hist
               /\ before' = Cur
               /\ UNCHANGED <<game, cards, seed, dealt>>

NextStock ==
    \/ Restart
    \/ ClickStock(MaxLong)
    \/ Undo

SpecStock == InitBackbone /\ [][NextStock]_vars

\* A deal with Aces and the cards that follow them at the tails of the
\* columns, of Klondike and of Yukon; in Klondike a face-down 2 under an
\* Ace, in Yukon an Ace with the 2 of the other colour below it
AcesOrder ==
    <<14, 15,  5,  6,  7,  8,  9,  1, 10, 11, 12, 13, 17,
       2, 18, 19, 20, 21, 28, 22, 23, 24, 25, 26, 29, 52,
      30,  3, 31, 32, 33, 34, 35, 36, 37, 38, 39, 43, 44,
      45, 46, 27, 47, 48, 49, 50, 40, 41, 42, 51, 16,  4>>

InitDoubleClick ==
    \E g \in {"Klondike", "Yukon", "Pylitaire", "Backbone"} :
        InitDeck(g, Reverse(IF g = "Backbone" THEN BackboneOrder ELSE AcesOrder))

\* Game.doubleclick(item) on any item, while fewer than MaxDouble gestures
\* moved a card.  The history keeps the item of every call, and counts the
\* calls that moved a card.  For a card that is in no slot and has a target,
\* Game.drop raises AttributeError after the move (slot.stack of None), and
\* no value is returned.
DoubleClickItem ==
    /\ dealt /\ moves < MaxDouble
    /\ \E item \in Clickable(game, Cur) :
           \E r \in {doubleclick(game, Cur, item)} :
               /\ Commit(r.st)
               /\ moves' = IF r.ret THEN moves + 1 ELSE moves
               /\ last' = [NoLast EXCEPT !.op = "doubleclick",
                             !.raised = r.ret /\ slot[item[2]] = None,
                             !.ret = r.ret /\ slot[item[2]] # None,
                             !.changed = r.st # Cur, !.item = item]
               /\ hist' = hist
               /\ before' = Cur
               /\ UNCHANGED <<game, cards, seed, dealt>>

NextDoubleClick ==
    \/ FirstDeal
    \/ Drop(MaxOffer)
    \/ DoubleClickItem

SpecDoubleClick == InitDoubleClick /\ [][NextDoubleClick]_vars

\* A long session through the Game API of a game with foundations built by
\* suit, on a shuffled deck
InitLong ==
    \E g \in {"Klondike", "Yukon"} : InitDeck(g, Reverse(DealOrder))

NextLong ==
    \/ FirstDeal
    \/ Click(MaxLong)
    \/ DoubleClick(MaxLong)
    \/ Drop(MaxLong)
    \/ Undo

SpecLong == InitLong /\ [][NextLong]_vars

\* Legal play: the four games with rules, on a shuffled deck; every drop is
\* one the GUI offers
InitLegal ==
    \E g \in {"Klondike", "Yukon", "Pylitaire", "Backbone"} :
        InitDeck(g, Reverse(IF g = "Backbone" THEN BackboneOrder ELSE DealOrder))

NextLegal ==
    \/ FirstDeal
    \/ Click(MaxLegal)
    \/ DoubleClick(MaxLegal)
    \/ GuiDrop(MaxLegal)
    \/ Undo

SpecLegal == InitLegal /\ [][NextLegal]_vars

\* ----------------------------------------------------------- the event loop
\* Gui._action_undo that does not look at dragcard
action_undo_while_dragging(g, st, G) ==
    IF undoable(st) THEN [st |-> undo(st), ran |-> TRUE]
    ELSE [st |-> st, ran |-> FALSE]

\* Gui._action_undo
action_undo(g, st, G) ==
    IF undoable(st) /\ G.dragcard = None THEN [st |-> undo(st), ran |-> TRUE]
    ELSE [st |-> st, ran |-> FALSE]

\* The loop of Gui.run on a game that restart() has dealt: the events come in
\* any order, each mouse event with the item under the mouse, but the left
\* button (gui.pressed) goes down and up in turn.  moves counts the events;
\* hist.started is the card of the last start_drag since the last deal,
\* hist.open the card of a start_drag that no drop or abort_drag has
\* followed, hist.forgotten whether wingame has put an end to a drag without
\* either; before is the state the last event found, last.item the card
\* handed to game.drop, if it was called, and last.target its target.
InitEvents == \E g \in {"Klondike", "Yukon"} : InitDeck(g, Reverse(DealOrder))

\* An event that leaves the game in st, the cards at geo and the GUI in G
EventCall(name, st, geo, G, item, target, h) ==
    /\ dealt /\ gui.running /\ moves < MaxEvents
    /\ CommitLinks(st)
    /\ rect' = geo.rect
    /\ drag_start_pos' = geo.drag_start_pos
    /\ drag_offset' = geo.drag_offset
    /\ gui' = G
    /\ last' = [NoLast EXCEPT !.op = name, !.item = item, !.target = target,
                  !.raised = ~G.running]
    /\ hist' = h
    /\ before' = Cur
    /\ moves' = moves + 1
    /\ UNCHANGED <<game, cards, seed, dealt>>

\* MOUSEBUTTONDOWN, left button, on item x; intime: the press comes before
\* doubleclicktimer runs out
MouseDown ==
    /\ ~gui.pressed
    /\ IF gui.win
       THEN EventCall("ignored", Cur, Geo, [gui EXCEPT !.pressed = TRUE],
                      NoItem, NoItem, hist)
       ELSE
       \E x \in Clickable(game, Cur) :
       \E intime \in IF x = gui.doubleclickcard THEN BOOLEAN ELSE {FALSE} :
        IF x = gui.doubleclickcard /\ intime
        THEN \E r \in {doubleclick(game, Cur, x)} :
                EventCall("doubleclick", r.st, Geo,
                          [gui EXCEPT !.pressed = TRUE, !.doubleclickcard = NoItem,
                                      !.running = ~(/\ ~IsSlot(x) /\ r.ret
                                                    /\ slot[x[2]] = None)],
                          NoItem, NoItem, hist)
        ELSE \E drags \in {~IsSlot(x) /\ draggable(game, Cur, x[2])} :
                EventCall("mousedown", Cur,
                          IF drags THEN start_drag(Cur, Geo, x[2], <<0, 0>>) ELSE Geo,
                          [gui EXCEPT !.pressed = TRUE,
                                      !.dragcard = IF drags THEN x[2] ELSE @,
                                      !.clickcard = x, !.doubleclickcard = x],
                          NoItem, NoItem,
                          [hist EXCEPT !.started = IF drags THEN x[2] ELSE @,
                                       !.open = IF drags THEN x[2] ELSE @])

\* MOUSEBUTTONUP, left button, first part: the drag ends with a drop on the
\* first target droppable returns, t, or is aborted when there is none (t is
\* NoItem).  game.drop raises for a card in no slot, abort_drag for a card
\* with no saved position.
EndDrag(g, st, geo, G, t) ==
    IF G.dragcard = None THEN [st |-> st, geo |-> geo, G |-> G]
    ELSE IF t # NoItem
    THEN [st |-> drop(g, st, G.dragcard, t),
          geo |-> Card_drop(st, geo, G.dragcard),
          G |-> IF st.slot[G.dragcard] = None THEN [G EXCEPT !.running = FALSE]
                ELSE [G EXCEPT !.dragcard = None]]
    ELSE [st |-> st,
          geo |-> [abort_drag(st, geo, G.dragcard) EXCEPT !.raised = FALSE],
          G |-> IF abort_drag(st, geo, G.dragcard).raised
                THEN [G EXCEPT !.running = FALSE]
                ELSE [G EXCEPT !.dragcard = None]]

\* MOUSEBUTTONUP, left button, second part: the click on clickcard when the
\* mouse is still on it (same)
EndClick(g, e, same) ==
    IF ~e.G.running \/ e.G.clickcard = NoItem THEN e
    ELSE IF same
    THEN LET r == click(g, e.st, e.G.clickcard)
         IN  [st |-> r.st, geo |-> e.geo,
              G |-> [e.G EXCEPT !.clickcard = NoItem,
                                !.doubleclickcard = IF r.ret THEN NoItem ELSE @]]
    ELSE [e EXCEPT !.G.clickcard = NoItem]

MouseUp ==
    /\ gui.pressed
    /\ IF gui.win
       THEN EventCall("ignored", Cur, Geo, [gui EXCEPT !.pressed = FALSE],
                      NoItem, NoItem, hist)
       ELSE
       \E same \in IF gui.clickcard = NoItem THEN {FALSE} ELSE BOOLEAN :
       \E t \in {NoItem} \cup
                 (IF gui.dragcard = None THEN {}
                  ELSE Range(droppable(game, Cur, gui.dragcard,
                                       Candidates(game, Cur, gui.dragcard)))) :
          \E e \in {EndClick(game, EndDrag(game, Cur, Geo, gui, t), same)} :
              EventCall("mouseup", e.st, e.geo, [e.G EXCEPT !.pressed = FALSE],
                        IF t = NoItem THEN NoItem ELSE CardItem(gui.dragcard), t,
                        [hist EXCEPT !.open = IF gui.dragcard = None THEN @ ELSE None])

\* KEYDOWN BACKSPACE, MOUSEBUTTONUP THUMB_BACK
KeyUndo ==
    /\ ~gui.win
    /\ \E r \in {action_undo(game, Cur, gui)} :
           EventCall(IF r.ran THEN "undo" ELSE "no undo", r.st, Geo, gui,
                     NoItem, NoItem, hist)

\* KEYDOWN SPACE: Gui.startgame(new=False)
KeyRestart ==
    EventCall("restart", restart(game, Cur, cards), Geo, [gui EXCEPT !.win = FALSE],
              NoItem, NoItem, [hist EXCEPT !.started = None])

\* KEYDOWN RETURN: Gui.startgame(new=True); game.new_game() raises TypeError,
\* which ends the loop
KeyNewGame ==
    EventCall("new_game", Cur, Geo, [gui EXCEPT !.win = FALSE, !.running = FALSE],
              NoItem, NoItem, hist)

\* KEYDOWN F12: Gui.wingame
KeyWin ==
    EventCall("wingame", Cur, Geo, [gui EXCEPT !.win = TRUE, !.dragcard = None],
              NoItem, NoItem,
              [hist EXCEPT !.forgotten = @ \/ gui.dragcard # None])

\* Gui.update: the card being dragged follows the mouse; Card.drag raises
\* for a card with no saved offset
FrameUpdate ==
    /\ gui.dragcard # None
    /\ \E p \in MousePos :
        \E geo \in {drag(Cur, Geo, gui.dragcard, p)} :
           EventCall("update", Cur, [geo EXCEPT !.raised = FALSE],
                     [gui EXCEPT !.running = ~geo.raised], NoItem, NoItem, hist)

NextEvents ==
    \/ FirstDeal
    \/ MouseDown
    \/ MouseUp
    \/ KeyUndo
    \/ KeyRestart
    \/ KeyNewGame
    \/ KeyWin
    \/ FrameUpdate

SpecEvents == InitEvents /\ [][NextEvents]_vars

\* ------------------------------------------------------------------ claims

\* C1: link symmetry: a card's child has that card as its parent, and a
\* card's parent has that card as its child.
LinkSymmetry ==
    \A c \in CardsOf(Cur) :
        /\ child[c] # None => parent[child[c]] = c
        /\ parent[c] # None => child[parent[c]] = c

\* C1, reached: a card was stacked on one of its ancestors, and a card in the
\* middle of a chain has both links.
LinkSymmetryReached ==
    /\ last.op = "stack on ancestor"
    /\ \E c \in CardsOf(Cur) : parent[c] # None /\ child[c] # None

\* C2: no card is reachable from itself by following child links.
NoCycle ==
    \A c \in CardsOf(Cur) : c \notin Range(children(Cur, c))

\* C2, reached: a card was stacked on one of its descendants and is now the
\* child of that card.
NoCycleReached ==
    /\ last.op = "stack on descendant"
    /\ \E c \in CardsOf(Cur) : parent[c] # None /\ child[c] # None

\* C3: every card reachable from a slot's child has that slot as its slot,
\* and every card with a parent has its parent's slot.
SlotConsistent ==
    /\ \A s \in SlotsOf(Cur) : \A c \in Range(Slot_cards(Cur, s)) : slot[c] = s
    /\ \A c \in CardsOf(Cur) : parent[c] # None => slot[c] = slot[parent[c]]

\* C3, reached: a card with a child was placed on an occupied slot, its chain
\* came with it and the card that was there is in no slot.
SlotConsistentReached ==
    /\ last.op = "place on occupied slot"
    /\ \E s \in SlotsOf(Cur) : Len(Slot_cards(Cur, s)) >= 2
    /\ \E c \in CardsOf(Cur) : slot[c] = None

\* C4: a slot's child has that slot as its slot and has no parent.
SlotChildIsHead ==
    \A s \in SlotsOf(Cur) :
        slot_child[s] # None =>
            /\ slot[slot_child[s]] = s
            /\ parent[slot_child[s]] = None

\* C4, reached: the head of a slot was popped while another slot holds a chain
\* of two cards or more.
SlotChildIsHeadReached ==
    /\ last.op = "pop head"
    /\ \E s \in SlotsOf(Cur) : slot_child[s] = None
    /\ \E s \in SlotsOf(Cur) : Len(Slot_cards(Cur, s)) >= 2

\* C5: an undo() that immediately follows a gesture which changed the state
\* restores, for every card, the slot, the position in the slot's chain and the
\* facing it had before the gesture.
UndoRestores ==
    (/\ last.op = "undo"
     /\ last.prev \in {"click", "doubleclick", "drop"}
     /\ last.prevchanged)
        => Obs(game, Cur) = Obs(game, before)

\* C5, violated: in Backbone a click on the stock slot deals the waste back to
\* the stock and logs nothing, so the undo() after it undoes the gesture
\* before and the cards stay in the stock.

\* C6: in Klondike an undo() that follows a doubleclick(c) which moved c to a
\* foundation leaves every card in the slot, at the position and with the
\* facing it had before the double-click, c at the tail of the slot it came
\* from included, and leaves the undo log as it was before the double-click.
DoubleClickUndone ==
    (/\ game = "Klondike"
     /\ last.op = "undo"
     /\ last.prev = "doubleclick"
     /\ last.prevret)
        => /\ Obs(game, Cur) = Obs(game, before)
           /\ undocmds = before.undocmds
           /\ is_tail(Cur, last.item[2])
           /\ slot[last.item[2]] \notin Range(foundations(game))

\* C6, reached: the Ace at the tail of the waste was double-clicked to a
\* foundation and the move undone, with one entry in the undo log.
DoubleClickUndoneReached ==
    /\ game = "Klondike"
    /\ last.op = "undo"
    /\ last.prev = "doubleclick"
    /\ last.prevret /\ last.prevchanged
    /\ rank(last.item[2]) = ACE
    /\ tail(Cur, Waste) = last.item[2]
    /\ faceup[last.item[2]]
    /\ Len(undocmds) = 1

\* C7: in Klondike, droppable(card, targets) returns exactly the candidates
\* that are an empty foundation slot when the card is a tail Ace, an empty
\* tableau slot when the card is a King, the tail card of a foundation when the
\* card is a tail of the same suit and one rank above, or the face-up tail
\* card of a tableau column of the other colour and one rank above the card;
\* no other candidate, and in the order of the candidates.
DroppableExact ==
    (game = "Klondike" /\ dealt) =>
        LET F == Range(foundations(game))
            T == Range(tableau(game))
            Ftails == {tail(Cur, f) : f \in {x \in F : ~is_empty(Cur, x)}}
            Ttails == {tail(Cur, f) : f \in {x \in T : ~is_empty(Cur, x)}}
            all == Items(game, Cur)
            Accepts(c, t) ==
                IF IsSlot(t)
                THEN \/ t[2] \in F /\ is_empty(Cur, t[2])
                        /\ is_tail(Cur, c) /\ rank(c) = ACE
                     \/ t[2] \in T /\ is_empty(Cur, t[2]) /\ rank(c) = KING
                ELSE \/ t[2] \in Ftails /\ is_tail(Cur, c)
                        /\ suit(t[2]) = suit(c) /\ rank(t[2]) = rank(c) - 1
                     \/ t[2] \in Ttails /\ faceup[t[2]]
                        /\ color(t[2]) # color(c) /\ rank(t[2]) = rank(c) + 1
        IN  \A c \in CardsOf(Cur) :
                Klondike_droppable(game, Cur, c, all)
                    = SelectSeq(all, LAMBDA t : Accepts(c, t))

\* C7, reached: a Klondike state in which some card is accepted by an empty
\* foundation slot, some card by an empty tableau slot, some card by the tail
\* card of a foundation and some card by a tableau tail, while a tableau tail
\* one rank above a card of its own colour is not returned for that card.
DroppableExactReached ==
    /\ game = "Klondike" /\ dealt
    /\ LET all == Items(game, Cur)
           got(c) == Range(Klondike_droppable(game, Cur, c, all))
       IN  /\ \E c \in CardsOf(Cur) : \E t \in got(c) :
                  IsSlot(t) /\ t[2] \in Range(foundations(game))
           /\ \E c \in CardsOf(Cur) : \E t \in got(c) :
                  IsSlot(t) /\ t[2] \in Range(tableau(game))
           /\ \E c \in CardsOf(Cur) : \E t \in got(c) :
                  ~IsSlot(t) /\ slot[t[2]] \in Range(foundations(game))
           /\ \E c \in CardsOf(Cur) : \E t \in got(c) :
                  ~IsSlot(t) /\ slot[t[2]] \in Range(tableau(game))
           /\ \E c \in CardsOf(Cur) : \E t \in CardsOf(Cur) :
                  /\ slot[t] \in Range(tableau(game)) /\ is_tail(Cur, t) /\ faceup[t]
                  /\ rank(t) = rank(c) + 1 /\ color(t) = color(c)
                  /\ CardItem(t) \notin got(c)

KlondikeLayout ==
    (game = "Klondike" /\ last.op \in {"new_game", "restart"}) =>
        /\ \A i \in 1..Len(tableau(game)) :
              LET q == Slot_cards(Cur, tableau(game)[i])
              IN  /\ Len(q) = i
                  /\ \A j \in 1..Len(q) : faceup[q[j]] <=> j = i
        /\ LET q == Slot_cards(Cur, Stock)
           IN  Len(q) = 24 /\ \A j \in 1..Len(q) : ~faceup[q[j]]
        /\ is_empty(Cur, Waste)
        /\ Len(foundations(game)) = 4
        /\ \A f \in Range(foundations(game)) : is_empty(Cur, f)

\* C10: in Klondike a click on the tail card of the stock moves that one
\* card, face-up, to the tail of the waste.  After a click on the stock slot
\* with the stock empty, the waste is empty and the stock holds every waste
\* card face-down, and the clicks on the stock tail that follow deal the same
\* cards in the order of the pass before: the waste from head to tail followed
\* by the stock from tail to head is the waste of that pass.
RedealReproduces ==
    /\ (/\ game = "Klondike" /\ dealt
        /\ last.op = "click" /\ last.item[1] = "card"
        /\ before.slot[last.item[2]] = Stock)
           => /\ Slot_cards(Cur, Waste)
                     = Append(Slot_cards(before, Waste), last.item[2])
              /\ Append(Slot_cards(Cur, Stock), last.item[2])
                     = Slot_cards(before, Stock)
              /\ faceup[last.item[2]]
    /\ (/\ game = "Klondike" /\ dealt
        /\ hist.wastes # <<>>
        /\ hist.wastes[Len(hist.wastes)] # <<>>)
           => /\ Slot_cards(Cur, Waste) \o Reverse(Slot_cards(Cur, Stock))
                     = hist.wastes[Len(hist.wastes)]
              /\ \A c \in Range(Slot_cards(Cur, Stock)) : ~faceup[c]
              /\ \A c \in Range(Slot_cards(Cur, Waste)) : faceup[c]
              /\ (last.item = SlotItem(Stock)) => is_empty(Cur, Waste)

\* C10, reached: the second pass through the stock is over, the stock is
\* empty again and the waste holds the cards in the order of the first pass.
RedealReproducesReached ==
    /\ game = "Klondike" /\ dealt
    /\ Len(hist.wastes) = 1
    /\ Len(hist.wastes[1]) = 24
    /\ is_empty(Cur, Stock)
    /\ Slot_cards(Cur, Waste) = hist.wastes[1]
    /\ last.op = "click" /\ last.item[1] = "card"

\* C11 as stated: a call of new_game(seed) with a non-zero seed returns, with
\* the seed stored in game.seed and the cards dealt (so that two new
\* instances given the same seed can be compared slot by slot).
NewGameReturnsSeed ==
    (last.op = "new_game") => (~last.raised /\ seed \in Seeds /\ dealt)

DropMovesChain ==
    (/\ game = "Yukon" /\ last.op = "drop"
     /\ before.child[last.item[2]] # None
     /\ before.faceup[last.item[2]]
     /\ before.slot[last.item[2]] # None)
        => LET c == last.item[2]
               t == last.target
               moved == <<c>> \o children(before, c)
               src == before.slot[c]
               dst == IF IsSlot(t) THEN t[2] ELSE before.slot[t[2]]
           IN  /\ dst # None
               /\ Slot_cards(Cur, dst) = Slot_cards(before, dst) \o moved
               /\ \A d \in Range(moved) : slot[d] = dst
               /\ Slot_cards(Cur, src) \o moved = Slot_cards(before, src)

\* C13, amended: the same for a target that is none of c's descendants and
\* that is in a slot.
DropMovesChainOffDescendants ==
    (/\ game = "Yukon" /\ last.op = "drop"
     /\ before.child[last.item[2]] # None
     /\ before.faceup[last.item[2]]
     /\ before.slot[last.item[2]] # None
     /\ ~last.strayed
     /\ IsSlot(last.target) \/ before.slot[last.target[2]] # None)
        => LET c == last.item[2]
               t == last.target
               moved == <<c>> \o children(before, c)
               src == before.slot[c]
               dst == IF IsSlot(t) THEN t[2] ELSE before.slot[t[2]]
           IN  /\ Slot_cards(Cur, dst) = Slot_cards(before, dst) \o moved
               /\ \A d \in Range(moved) : slot[d] = dst
               /\ Slot_cards(Cur, src) \o moved = Slot_cards(before, src)

\* C13, reached: in Yukon a face-up card went with the card below it onto the
\* tail of another column
DropMovesChainReached ==
    /\ game = "Yukon" /\ last.op = "drop" /\ ~hist.strayed
    /\ before.child[last.item[2]] # None
    /\ before.faceup[last.item[2]]
    /\ ~IsSlot(last.target)
    /\ before.slot[last.target[2]] \in Range(tableau(game))
    /\ before.slot[last.item[2]] \in Range(tableau(game))
    /\ slot[last.item[2]] = before.slot[last.target[2]]

\* C14 as stated: in every variant, droppable(card, targets) returns a
\* subsequence of targets: its elements are elements of targets, in the
\* order they have in targets.
DroppableKeepsOrder ==
    dealt =>
        LET RECURSIVE IsSubSeq(_, _)
            IsSubSeq(r, q) ==
                IF r = <<>> THEN TRUE
                ELSE IF q = <<>> THEN FALSE
                ELSE IF Head(r) = Head(q) THEN IsSubSeq(Tail(r), Tail(q))
                ELSE IsSubSeq(r, Tail(q))
        IN  \A c \in Handled(Cur) : \A q \in TargetLists(game, Cur) :
                IsSubSeq(droppable(game, Cur, c, q), q)

\* C15: in the states of Yukon and Pylitaire, for every card and every list
\* of candidates, Pylitaire.droppable returns every target that Yukon's
\* droppable returns, and every empty tableau slot of the list.
PylitaireMorePermissive ==
    (game \in {"Yukon", "Pylitaire"} /\ dealt) =>
        \A c \in Handled(Cur) : \A q \in TargetLists(game, Cur) :
            /\ Range(Klondike_droppable(game, Cur, c, q))
                   \subseteq Range(Pylitaire_droppable(game, Cur, c, q))
            /\ \A i \in 1..Len(q) :
                   (/\ IsSlot(q[i])
                    /\ q[i][2] \in Range(tableau(game))
                    /\ is_empty(Cur, q[i][2]))
                       => q[i] \in Range(Pylitaire_droppable(game, Cur, c, q))

\* C15, reached: a state of Pylitaire with an empty tableau slot that
\* Pylitaire.droppable returns for a card that is no King, and that Yukon's
\* droppable does not return, next to a target that both return.
PylitaireMorePermissiveReached ==
    /\ game = "Pylitaire" /\ dealt
    /\ \E c \in Handled(Cur) : \E q \in TargetLists(game, Cur) :
          /\ rank(c) # KING /\ Len(q) = 2
          /\ IsSlot(q[1]) /\ q[1][2] \in Range(tableau(game))
          /\ Klondike_droppable(game, Cur, c, q) = <<q[2]>>
          /\ Range(Pylitaire_droppable(game, Cur, c, q)) = {q[1], q[2]}

\* C16: in Backbone, the head card of a backbone slot is draggable exactly
\* when the slot that blocks its slot is empty.
BackboneBlocking ==
    (game = "Backbone" /\ dealt) =>
        \A B \in Range(backbone(game)) :
            ~is_empty(Cur, B) =>
                (draggable(game, Cur, head(Cur, B)) <=> is_empty(Cur, blockedby(B)))

\* C16, reached: a backbone slot whose blocking slot was emptied by the last
\* gesture, its head card draggable now and not before, next to a backbone
\* slot that is still blocked.
BackboneBlockingReached ==
    /\ game = "Backbone" /\ dealt /\ last.op = "doubleclick" /\ last.ret
    /\ \E B \in Range(backbone(game)) :
          /\ ~is_empty(Cur, B) /\ is_empty(Cur, blockedby(B))
          /\ ~is_empty(before, blockedby(B))
          /\ draggable(game, Cur, head(Cur, B))
          /\ ~draggable(game, before, head(Cur, B))
    /\ \E B \in Range(backbone(game)) :
          /\ ~is_empty(Cur, B) /\ ~is_empty(Cur, blockedby(B))
          /\ ~draggable(game, Cur, head(Cur, B))

\* C17 as stated: in Backbone, for every index i in 0..16, the card in
\* backbone[i] is draggable exactly when backbone[i+1] is empty.
BackboneOneChain ==
    (game = "Backbone" /\ dealt) =>
        \A i \in 1..(Len(backbone(game)) - 1) :
            ~is_empty(Cur, backbone(game)[i]) =>
                (draggable(game, Cur, head(Cur, backbone(game)[i]))
                    <=> is_empty(Cur, backbone(game)[i + 1]))

\* C17, amended: the 18 backbone slots form two chains of 9: for every index
\* i in 0..16 but 8 the card in backbone[i] is draggable exactly when
\* backbone[i+1] is empty, and the cards in backbone[8] and backbone[17] are
\* draggable exactly when the block slot is empty.
BackboneTwoChains ==
    (game = "Backbone" /\ dealt) =>
        \A i \in 1..Len(backbone(game)) :
            ~is_empty(Cur, backbone(game)[i]) =>
                (draggable(game, Cur, head(Cur, backbone(game)[i]))
                    <=> IF i \in {9, 18} THEN is_empty(Cur, block)
                        ELSE is_empty(Cur, backbone(game)[i + 1]))

\* C17, reached: the block slot and backbone[17] are empty, the cards in
\* backbone[16] and in backbone[8] are draggable, backbone[9] holds a card
\* and the card in backbone[15] is not draggable.
BackboneTwoChainsReached ==
    /\ game = "Backbone" /\ dealt
    /\ is_empty(Cur, block) /\ is_empty(Cur, backbone(game)[18])
    /\ ~is_empty(Cur, backbone(game)[17])
    /\ draggable(game, Cur, head(Cur, backbone(game)[17]))
    /\ ~is_empty(Cur, backbone(game)[9]) /\ ~is_empty(Cur, backbone(game)[10])
    /\ draggable(game, Cur, head(Cur, backbone(game)[9]))
    /\ ~draggable(game, Cur, head(Cur, backbone(game)[16]))

\* C18: restart(), called after any sequence of gestures and undos, leaves
\* the state that followed the deal of the game: the same parent, child and
\* slot of every card and child of every slot, the same face-up states, in
\* Backbone redeals = 1, and an empty undo log, so that undoable() is False.
RestartResets ==
    (last.op = "restart") =>
        /\ Cur = FirstRestart(game, cards)
        /\ game = "Backbone" => redeals = 1
        /\ undocmds = <<>>
        /\ ~undoable(Cur)

\* C18, reached: restart() right after an undo, from a state with commands
\* left in the undo log and a card away from the slot it was dealt to.
RestartResetsReached ==
    /\ last.op = "restart" /\ last.prev = "undo"
    /\ undoable(before)
    /\ \E c \in CardsOf(Cur) : before.slot[c] # slot[c]
    /\ \E c \in CardsOf(Cur) : before.faceup[c] # faceup[c]

\* C19: after deck.pop_cards(), whatever the state it was called in, every
\* card of the deck has parent None, child None and slot None, and every slot
\* has child None.
PopCardsUnlinksAll ==
    (last.op = "pop_cards") =>
        /\ \A c \in Range(cards) :
              parent[c] = None /\ child[c] = None /\ slot[c] = None
        /\ \A s \in SlotsOf(Cur) : slot_child[s] = None

\* C19, reached: pop_cards() called with a card of a slot that has both a
\* parent and a child, and with a chain of cards that is in no slot.
PopCardsUnlinksAllReached ==
    /\ last.op = "pop_cards"
    /\ \E c \in Range(cards) :
          /\ before.parent[c] # None /\ before.child[c] # None
          /\ before.slot[c] # None
          /\ before.slot_child[before.slot[c]] # None
    /\ parent = [c \in CardsOf(Cur) |-> None]

\* C20: Card.place is idempotent: in the state c.place(S) leaves, whatever
\* the state, the card c and the slot S it was called with, a second
\* c.place(S) changes no parent, child or slot of a card and no child of a
\* slot.
PlaceIdempotent ==
    (last.op \in {"place", "place on occupied slot"}) =>
        LET twice == place(Cur, last.item[2], last.target[2])
        IN  /\ twice.parent = parent
            /\ twice.child = child
            /\ twice.slot = slot
            /\ twice.slot_child = slot_child

\* C20, reached: c.place(S) that took c with a card below it from another
\* slot onto a slot S that held another card.
PlaceIdempotentReached ==
    /\ last.op = "place on occupied slot"
    /\ child[last.item[2]] # None
    /\ before.slot[last.item[2]] \notin {None, last.target[2]}
    /\ slot[last.item[2]] = last.target[2]

\* C21 as stated: for any two distinct cards c and t, c.stack(t) immediately
\* followed by c.pop() leaves c with the parent, the slot and the descendants
\* it had before the stack call, and t with child None.
StackPopRestores ==
    (last.op = "stack, pop") =>
        /\ parent[last.item[2]] = before.parent[last.item[2]]
        /\ slot[last.item[2]] = before.slot[last.item[2]]
        /\ children(Cur, last.item[2]) = children(before, last.item[2])
        /\ child[last.target[2]] = None

\* C21, amended: c.stack(t) immediately followed by c.pop() leaves c with no
\* parent and in no slot and t with child None; c keeps its descendants,
\* down to the card above t when t was one of them.  So c has the parent,
\* the slot and the descendants it had before whenever it had no parent, was
\* in no slot and t was not one of its descendants.
StackPopFreesCard ==
    (last.op = "stack, pop") =>
        LET c == last.item[2]
            t == last.target[2]
            was == children(before, c)
        IN  /\ parent[c] = None
            /\ slot[c] = None
            /\ child[t] = None
            /\ children(Cur, c) =
                  IF t \in Range(was)
                  THEN SubSeq(was, 1, (CHOOSE i \in 1..Len(was) : was[i] = t) - 1)
                  ELSE was
            /\ (before.parent[c] = None /\ before.slot[c] = None /\ t \notin Range(was))
                  => /\ parent[c] = before.parent[c]
                     /\ slot[c] = before.slot[c]
                     /\ children(Cur, c) = was

\* C21, reached: c.stack(t), c.pop() for a card c with a card below it, no
\* parent and no slot, and a card t of a slot.
StackPopFreesCardReached ==
    /\ last.op = "stack, pop"
    /\ before.parent[last.item[2]] = None /\ before.slot[last.item[2]] = None
    /\ before.child[last.item[2]] # None
    /\ before.child[last.item[2]] # last.target[2]
    /\ before.slot[last.target[2]] # None
    /\ child[last.item[2]] = before.child[last.item[2]]

\* The calls c.stack(t) of two distinct cards
StackCalls ==
    {"stack", "stack on descendant", "stack on ancestor", "stack on card with child"}

\* C27: after c.stack(t) for two distinct cards, whatever their topology
\* before (t unattached, in another stack, an ancestor of c or a descendant
\* of c): c.parent is t, t.child is c, and c and every descendant of c have
\* the slot of t.
StackPostcondition ==
    (last.op \in StackCalls) =>
        /\ parent[last.item[2]] = last.target[2]
        /\ child[last.target[2]] = last.item[2]
        /\ \A d \in {last.item[2]} \cup Range(children(Cur, last.item[2])) :
              slot[d] = slot[last.target[2]]

\* C27, reached: c.stack(t) onto a descendant t of c, both in a slot before
\* the call, with a card between them that stays below c.
StackPostconditionReached ==
    /\ last.op = "stack on descendant"
    /\ before.slot[last.item[2]] # None
    /\ before.child[last.item[2]] # last.target[2]
    /\ child[last.item[2]] = before.child[last.item[2]]
    /\ slot[last.target[2]] = None

\* C28: when t has a child d, d different from c and c not a descendant of
\* d, c.stack(t) pops d first: afterwards t has c as its only child,
\* d.parent is None, and d and its descendants are in no slot, linked to each
\* other in their order of before.
StackPopsFormerChild ==
    (/\ last.op \in StackCalls
     /\ before.child[last.target[2]] \notin {None, last.item[2]}
     /\ last.item[2] \notin Range(children(before, before.child[last.target[2]])))
        => LET c == last.item[2]
               t == last.target[2]
               d == before.child[last.target[2]]
           IN  /\ child[t] = c
               /\ \A e \in CardsOf(Cur) : parent[e] = t <=> e = c
               /\ parent[d] = None
               /\ \A e \in {d} \cup Range(children(Cur, d)) : slot[e] = None
               /\ children(Cur, d) = children(before, d)
               /\ \A i \in 1..Len(children(Cur, d)) :
                     parent[children(Cur, d)[i]]
                        = IF i = 1 THEN d ELSE children(Cur, d)[i - 1]

\* C28, reached: c.stack(t) onto a card t of a slot whose child d had a card
\* below it; d and that card were in the slot of t.
StackPopsFormerChildReached ==
    /\ last.op = "stack on card with child"
    /\ before.slot[last.target[2]] # None
    /\ before.slot[before.child[last.target[2]]] = before.slot[last.target[2]]
    /\ before.child[before.child[last.target[2]]] # None
    /\ child[before.child[last.target[2]]] = before.child[before.child[last.target[2]]]
    /\ slot[last.item[2]] = before.slot[last.target[2]]

\* The cards above c, its parent first
AncestorsOf(st, c) == ChainFrom(st.parent, st.parent[c], Cardinality(CardsOf(st)))

\* C29: after c.pop(): c.parent is None; the former parent of c, if any, has
\* child None; a slot c was the head of has child None; the chain of
\* descendants of c is as before, and c and its descendants are in no slot;
\* every former ancestor of c keeps its parent and its slot.
PopPostcondition ==
    (last.op \in {"pop", "pop head"}) =>
        LET c == last.item[2]
        IN  /\ parent[c] = None
            /\ before.parent[c] # None => child[before.parent[c]] = None
            /\ \A S \in SlotsOf(Cur) : before.slot_child[S] = c => slot_child[S] = None
            /\ children(Cur, c) = children(before, c)
            /\ \A d \in {c} \cup Range(children(Cur, c)) : slot[d] = None
            /\ \A a \in Range(AncestorsOf(before, c)) :
                  parent[a] = before.parent[a] /\ slot[a] = before.slot[a]

\* C29, reached: c.pop() of a card of a slot with two cards above it and a
\* card below it.
PopPostconditionReached ==
    /\ last.op = "pop"
    /\ before.slot[last.item[2]] # None
    /\ Len(AncestorsOf(before, last.item[2])) = 2
    /\ child[last.item[2]] # None
    /\ slot[before.parent[last.item[2]]] = before.slot[last.item[2]]

\* C30: after c.place(S), whatever the state (S empty, S headed by c, S
\* headed by another card, c buried inside the chain of S): S.child is c,
\* c.parent is None, c and its descendants have slot S, and a different card
\* h that was the head of S is not among the cards of S and has slot None.
PlacePostcondition ==
    (last.op \in {"place", "place on occupied slot"}) =>
        LET c == last.item[2]
            S == last.target[2]
        IN  /\ slot_child[S] = c
            /\ parent[c] = None
            /\ \A d \in {c} \cup Range(children(Cur, c)) : slot[d] = S
            /\ before.slot_child[S] \notin {None, c} =>
                  /\ before.slot_child[S] \notin Range(Slot_cards(Cur, S))
                  /\ slot[before.slot_child[S]] = None

\* C30, reached: c.place(S) of a card buried inside the chain of S, under two
\* cards and with a card below it.
PlacePostconditionReached ==
    /\ last.op = "place on occupied slot"
    /\ before.slot[last.item[2]] = last.target[2]
    /\ Len(AncestorsOf(before, last.item[2])) = 2
    /\ child[last.item[2]] # None
    /\ Slot_cards(Cur, last.target[2]) = <<last.item[2], child[last.item[2]]>>

\* C26: Yukon.setup() returns with the stock and the waste empty and all 52
\* cards on the seven tableau columns: column 0 holds 1 face-up card, and
\* each column i = 1..6 holds i + 5 cards, the first i from the head
\* face-down and the other 5 face-up.
YukonLayout ==
    (game = "Yukon" /\ last.op = "restart") =>
        /\ is_empty(Cur, Stock) /\ is_empty(Cur, Waste)
        /\ Len(tableau(game)) = 7
        /\ \A c \in Range(cards) : slot[c] \in Range(tableau(game))
        /\ \A k \in 1..Len(tableau(game)) :
              LET q == Slot_cards(Cur, tableau(game)[k])
              IN  /\ Len(q) = IF k = 1 THEN 1 ELSE k + 4
                  /\ \A j \in 1..Len(q) : faceup[q[j]] <=> j >= k

\* C26, reached: Yukon dealt again by restart() after a click, the last
\* column with its 11 cards.
YukonLayoutReached ==
    /\ game = "Yukon" /\ last.op = "restart" /\ last.prev = "click"
    /\ Len(cards) = 52
    /\ Len(Slot_cards(Cur, tableau(game)[7])) = 11
    /\ Len(Slot_cards(Cur, tableau(game)[1])) = 1

\* The target double_click_to_foundations makes of a foundation: the slot
\* when it is empty, its tail card otherwise
FoundationTarget(st, f) ==
    IF is_empty(st, f) THEN SlotItem(f) ELSE CardItem(tail(st, f))

\* The foundations, by index, whose target droppable accepts for the card
TakingFoundations(g, st, c) ==
    {k \in 1..Len(foundations(g)) :
        droppable(g, st, c, <<FoundationTarget(st, foundations(g)[k])>>) # <<>>}

\* C24: in Klondike, Yukon, Pylitaire and Backbone, doubleclick(item)
\* changes no parent, child or slot link, no face-up state and no undo log,
\* and returns a falsy value, whenever item is a slot, is in a foundation,
\* is not draggable, or has no foundation slot or foundation tail that is a
\* droppable target for it.
DoubleClickNoOp ==
    (/\ last.op = "doubleclick"
     /\ \/ IsSlot(last.item)
        \/ before.slot[last.item[2]] \in Range(foundations(game))
        \/ ~draggable(game, before, last.item[2])
        \/ TakingFoundations(game, before, last.item[2]) = {})
        => /\ Cur = before
           /\ ~last.ret

\* C24, reached: a double-click on a draggable card of the tableau for which
\* no foundation is a target, after a double-click that moved a card.
DoubleClickNoOpReached ==
    /\ last.op = "doubleclick" /\ ~last.ret /\ ~IsSlot(last.item)
    /\ moves > 0
    /\ slot[last.item[2]] \in Range(tableau(game))
    /\ draggable(game, Cur, last.item[2])
    /\ is_tail(Cur, last.item[2])
    /\ \E f \in Range(foundations(game)) : ~is_empty(Cur, f)

\* C25 as stated: when doubleclick(item) moves item, the destination is the
\* first foundation, in the order of game.foundations, whose empty slot or
\* tail card is a droppable target for item; the move is the one drop()
\* makes, and it pushes exactly one entry on the undo log.
DoubleClickFirstFoundation ==
    (last.op = "doubleclick" /\ (last.ret \/ last.changed)) =>
        /\ ~IsSlot(last.item)
        /\ TakingFoundations(game, before, last.item[2]) # {}
        /\ LET c == last.item[2]
               k == CHOOSE i \in TakingFoundations(game, before, c) :
                        \A j \in TakingFoundations(game, before, c) : i <= j
               f == foundations(game)[k]
           IN  /\ Slot_cards(Cur, f) = Append(Slot_cards(before, f), c)
               /\ slot[c] = f
               /\ Cur = drop(game, before, c, FoundationTarget(before, f))
               /\ ~last.raised
               /\ Len(undocmds) = Len(before.undocmds) + 1

\* C22: start_drag(p) on a card c, followed by any number of drag(q) calls
\* on c and then abort_drag(), raises nothing and leaves c and each of its
\* descendants at the position it had before start_drag, with no saved drag
\* origin and offset; and none of start_drag, drag, Card.drop and abort_drag
\* changes a parent, child or slot link or a face-up state.
DragCancelled ==
    /\ []((last.op = "abort_drag" /\ last.prev = "start_drag") =>
            /\ ~last.raised
            /\ \A d \in {last.item[2]} \cup Range(children(Cur, last.item[2])) :
                  /\ rect[d] = hist.origin[d]
                  /\ drag_start_pos[d] = <<>>
                  /\ drag_offset[d] = <<>>)
    /\ [][UNCHANGED <<parent, child, slot, slot_child, faceup>>]_vars

\* C22, reached: abort_drag() of a card with two cards below it after
\* start_drag and two drag calls, the last of which had all three cards
\* away from where they were.
DragCancelledReached ==
    /\ last.op = "abort_drag" /\ last.prev = "start_drag"
    /\ moves = 4
    /\ Len(children(Cur, last.item[2])) = 2
    /\ \A d \in {last.item[2]} \cup Range(children(Cur, last.item[2])) :
          /\ before.rect[d] # rect[d]
          /\ before.drag_offset[d] # <<0, 0>>

\* C23 as stated: Card.drag(pos) on a card with no saved drag offset raises
\* nothing and leaves the position and the drag state of every card as they
\* were.
DragWithoutStart ==
    (last.op = "drag" /\ before.drag_offset[last.item[2]] = <<>>) =>
        /\ ~last.raised
        /\ rect = before.rect
        /\ drag_start_pos = before.drag_start_pos
        /\ drag_offset = before.drag_offset

\* C31 as stated: after S.stack(c), whatever the state (c in the chain of S
\* or not), c is reachable from S.child, c and all its descendants have S as
\* their slot, and c is the head of S if S was empty, the child of the
\* former tail of S otherwise.
SlotStackPuts ==
    last.op = "Slot.stack" =>
        LET c == last.item[2]
            S == last.target[2]
        IN  /\ c \in Range(Slot_cards(Cur, S))
            /\ \A d \in {c} \cup Range(children(Cur, c)) : slot[d] = S
            /\ IF is_empty(before, S)
               THEN slot_child[S] = c /\ parent[c] = None
               ELSE parent[c] = tail(before, S)

\* The cards S.deal(slots, mode) moves, in the order it moves them: the tail
\* of S first, one card for each target until S is empty
DealtCards(st, S, q) ==
    LET Sc == Slot_cards(st, S)
        m == IF Len(Sc) < Len(q) THEN Len(Sc) ELSE Len(q)
    IN  [j \in 1..m |-> Sc[Len(Sc) + 1 - j]]

\* C32: S.deal(slots, mode) with S holding k cards and n target slots, none
\* of them S, moves exactly min(k, n) cards; the j-th target gets as its new
\* tail the card that was j-th from the tail of S, so every slot ends with the
\* cards it had followed by the cards it got, in the order of the targets;
\* the cards moved face as mode asks and no other card turns; S keeps its
\* first k - min(k, n) cards in order; when S is empty nothing changes.
DealMovesTails ==
    last.op = "deal" =>
        LET S == last.item[2]
            q == last.slots
            Sc == Slot_cards(before, S)
            moved == DealtCards(before, S, q)
            m == Len(moved)
        IN  /\ {c \in CardsOf(Cur) : slot[c] # before.slot[c]} = Range(moved)
            /\ Cardinality(Range(moved)) = m
            /\ Slot_cards(Cur, S) = SubSeq(Sc, 1, Len(Sc) - m)
            /\ \A T \in SlotsOf(Cur) \ {S} :
                  Slot_cards(Cur, T) =
                      Slot_cards(before, T)
                          \o Pick(moved, SelectSeq([j \in 1..m |-> j],
                                                   LAMBDA j : q[j] = T))
            /\ \A j \in 1..m : slot[moved[j]] = q[j]
            /\ \A c \in CardsOf(Cur) :
                  faceup[c] = IF c \in Range(moved)
                              THEN flip(before, c, last.mode).faceup[c]
                              ELSE before.faceup[c]
            /\ Sc = <<>> => Cur = before

\* C32, reached: a deal of two cards to two different slots, one of which
\* held a card, that turned the two cards over, one face-up and the other
\* face-down; the slot dealt from has no card left.
DealMovesTailsReached ==
    /\ last.op = "deal" /\ last.mode = "TOGGLE"
    /\ Len(last.slots) = 2 /\ last.slots[1] # last.slots[2]
    /\ Len(Slot_cards(before, last.item[2])) = 2
    /\ is_empty(Cur, last.item[2])
    /\ \E j \in 1..2 : Len(Slot_cards(Cur, last.slots[j])) = 2
    /\ \E c, d \in Range(Slot_cards(before, last.item[2])) :
          faceup[c] /\ ~faceup[d] /\ ~before.faceup[c] /\ before.faceup[d]

\* C33 as stated: in every variant click(item) returns True exactly when it
\* changed the slot, the place in a chain or the facing of some card.
ClickReturnsChanged ==
    last.op = "click" => (last.ret <=> Obs(game, Cur) # Obs(game, before))

\* C35: in Backbone redeals is 1 after every setup(); a click on the stock
\* slot with redeals > 0 moves the whole waste back onto the stock, face-down,
\* and takes exactly 1 from redeals; with redeals = 0 a click on the stock
\* slot moves no card; redeals is never negative and never above 1.
RedealsCounted ==
    /\ redeals \in {0, 1}
    /\ last.op = "restart" => redeals = 1
    /\ (last.op = "click" /\ last.item = SlotItem(Stock)) =>
          IF before.redeals > 0
          THEN /\ redeals = before.redeals - 1
               /\ is_empty(Cur, Waste)
               /\ Slot_cards(Cur, Stock) =
                      Slot_cards(before, Stock) \o Reverse(Slot_cards(before, Waste))
               /\ \A c \in Range(Slot_cards(Cur, Stock)) : ~faceup[c]
               /\ \A c \in CardsOf(Cur) \ Range(Slot_cards(before, Waste)) :
                      /\ slot[c] = before.slot[c]
                      /\ faceup[c] = before.faceup[c]
               /\ \A x \in SlotsOf(Cur) \ {Stock, Waste} :
                      Slot_cards(Cur, x) = Slot_cards(before, x)
          ELSE /\ redeals = 0
               /\ Obs(game, Cur) = Obs(game, before)

\* C35, reached: a click on the stock slot that took two cards of the waste
\* back to the stock and left no redeal, and a click on the stock slot with
\* no redeal left and a card on the waste, which stayed there.
RedealsCountedReached ==
    /\ last.op = "click" /\ last.item = SlotItem(Stock)
    /\ \/ /\ before.redeals = 1 /\ redeals = 0
          /\ Len(Slot_cards(before, Waste)) = 2
       \/ /\ before.redeals = 0
          /\ ~is_empty(Cur, Waste)

\* C36 as stated: in Backbone a click on the stock slot while the waste is
\* empty leaves redeals and every card as they were.
RedealNeedsWaste ==
    (last.op = "click" /\ last.item = SlotItem(Stock) /\ is_empty(before, Waste)) =>
        /\ redeals = before.redeals
        /\ Obs(game, Cur) = Obs(game, before)

\* The chain of every slot
Chains(st) == [s \in SlotsOf(st) |-> Slot_cards(st, s)]

RECURSIVE SumLen(_, _)
\* The number of cards in the first n of the chains
SumLen(chains, n) ==
    IF n = 0 THEN 0 ELSE Len(chains[n]) + SumLen(chains, n - 1)

\* Every card has a slot, the cards of the chain of a slot have it as their
\* slot, and the chains have as many cards as the deck: every card is in
\* the chain of its slot, and of no other
InOneChain(st, chains) ==
    /\ \A c \in CardsOf(st) : st.slot[c] # None
    /\ \A s \in DOMAIN chains :
          \A i \in 1..Len(chains[s]) : st.slot[chains[s][i]] = s
    /\ SumLen(chains, Len(chains)) = Cardinality(CardsOf(st))

\* The games with rules
RuleGames == {"Klondike", "Yukon", "Pylitaire", "Backbone"}

\* C37: in Klondike, Yukon, Pylitaire and Backbone, in every state reached
\* from a deal by click, doubleclick, undo and drops of a draggable card onto
\* a target droppable returns that is neither the card nor one of its
\* descendants, every card of the deck is in the chain of the slot it names
\* as its slot, the chains of all slots together have as many cards as the
\* deck, and neither the gesture that led to the state nor the undo() that
\* can follow it takes a correcting path of Card.stack or Card.place.
NoCardLost ==
    (dealt /\ game \in RuleGames) =>
        /\ InOneChain(Cur, Chains(Cur))
        /\ undoable(Cur) => ~undo_corrects(Cur)
        /\ last.op = "drop" => ~drop_corrects(before, last.item[2], last.target)
        /\ (last.op = "click" /\ last.item # NoLast.item) =>
              ~click_corrects(game, before, last.item)
        /\ (last.op = "doubleclick" /\ last.item # NoLast.item) =>
              ~doubleclick_corrects(game, before, last.item)

\* C37, reached: in Yukon or Pylitaire a third gesture that dropped a card
\* with a card below it onto a card of another column, after two gestures
\* that left entries in the undo log.
NoCardLostReached ==
    /\ game \in {"Yukon", "Pylitaire"}
    /\ last.op = "drop" /\ last.target[1] = "card"
    /\ child[last.item[2]] # None
    /\ moves = 3
    /\ Len(undocmds) = 3

\* C38: in Klondike, in every state reached from a deal by click,
\* doubleclick, undo and drops of a face-up card onto a target droppable
\* returns, no face-up card of a tableau column has a face-down card below
\* it in the chain, every card of the waste and of the foundations is
\* face-up, and every card of the stock is face-down.
FaceDownFirst ==
    (dealt /\ game = "Klondike") =>
        /\ \A s \in Range(tableau(game)) :
              LET q == Slot_cards(Cur, s)
              IN  \A i, j \in 1..Len(q) : (i < j /\ faceup[q[i]]) => faceup[q[j]]
        /\ \A s \in {Waste} \cup Range(foundations(game)) :
              \A c \in Range(Slot_cards(Cur, s)) : faceup[c]
        /\ \A c \in Range(Slot_cards(Cur, Stock)) : ~faceup[c]

\* C38, reached: a game of Klondike after four gestures, the last of them
\* undone, with a card on the waste, and a column of the tableau in which a
\* face-down card has two face-up cards below it.
FaceDownFirstReached ==
    /\ game = "Klondike" /\ moves = 4 /\ last.op = "undo"
    /\ ~is_empty(Cur, Waste)
    /\ \E s \in Range(tableau(game)) :
          LET q == Slot_cards(Cur, s)
          IN  /\ Len(q) >= 3
              /\ ~faceup[q[Len(q) - 2]]
              /\ faceup[q[Len(q) - 1]] /\ faceup[q[Len(q)]]

\* C39 as stated: in every variant a click, doubleclick or drop that changes
\* the slot, the chain or the facing of a card, or the redeals of Backbone,
\* pushes exactly one entry on undocmds, and one that changes nothing pushes
\* none.
UndoLogCounts ==
    last.op \in {"click", "doubleclick", "drop"} =>
        Len(undocmds) =
            Len(before.undocmds)
                + (IF \/ Obs(game, Cur) # Obs(game, before)
                      \/ redeals # before.redeals
                   THEN 1 ELSE 0)


\* C34: in the event loop game.undo() runs only when the undo log is not
\* empty and Gui.dragcard is None, so it never pops an empty log and, unless
\* wingame has put an end to a drag without a drop or an abort, never runs
\* between a start_drag and the drop or abort_drag that follows it.
UndoGuarded ==
    last.op = "undo" =>
        /\ undoable(before)
        /\ before.undocmds # <<>>
        /\ gui.dragcard = None
        /\ hist.open = None \/ hist.forgotten

\* An undo that ran after a drag that ended with a drop
UndoGuardedReached ==
    /\ last.op = "undo"
    /\ moves = 3
    /\ hist.started # None
    /\ hist.open = None
    /\ Obs(game, Cur) # Obs(game, before)

\* C40: in the event loop game.drop is called only for a card that is
\* draggable at that moment and on which start_drag was called since the last
\* deal, and a restart leaves no drag in progress.
DropOfStartedCard ==
    /\ (last.op = "mouseup" /\ last.item # NoItem) =>
           /\ draggable(game, before, last.item[2])
           /\ hist.started = last.item[2]
    /\ last.op = "restart" => gui.dragcard = None

====
